---- MODULE Spec2Model ----
(***************************************************************************)
(* Model of the memory engine of claude_memory_kit: the Qdrant-backed      *)
(* store (store/qdrant_store.py), the write pipeline (tools/remember.py)   *)
(* and retrieval (tools/recall.py).                                        *)
(*                                                                         *)
(* Time is an integer tick counter; SecTicks ticks make one second (the    *)
(* resolution of the memory id) and DayTicks ticks make 24 hours.          *)
(* Confidence is an integer in units of 0.9/ConfInit, so that halving a    *)
(* float (exact in binary floating point) is an exact integer halving.     *)
(* Scores are hundredths.  Content is a sequence of chunks; PrefixLen      *)
(* chunks stand for the 50 characters used in the journal key.             *)
(***************************************************************************)
EXTENDS Integers, Sequences, FiniteSets, TLC

VARIABLES disabled, clock, steps, memories, journal, last, cur,
          identity, rules, procs, _jwk_client, _jwk_cache_time, _jwk_lock,
          api_keys, teams, team_members, counters, dispatch

\* the tables of the auth database, the counters of the server session and
\* the call of _dispatch in progress
auth_db == <<api_keys, teams, team_members, counters, dispatch>>

\* the records and module globals that the memory operations leave alone
others == <<identity, rules, procs, _jwk_client, _jwk_cache_time, _jwk_lock, auth_db>>

vars == <<disabled, clock, steps, memories, journal, last, cur, others>>

\* ---------------------------------------------------------------- bounds
MaxClock == 2
MaxSteps == 4
MaxWrites == 2
MaxEffects == 3
MaxCalls == 2
MaxChain == 3
MaxEdges == 3
MaxAccess == 3
MaxLife == 3
MaxForget == 3
MaxRace == 4
MaxReflect == 4
MaxMigrate == 4
MaxRules == 3
MaxJwk == 2
MaxHalfHours == 2
MaxKeys == 4
MaxRaise == 1
MaxOverlap == 5
MaxTenant == 3
MaxTeamForget == 3
MaxTeams == 4

\* ------------------------------------------------------- program constants
SecTicks == 2
DayTicks == 3
PrefixLen == 1
ConfInit == 2304
ContradictionThreshold == 85
CorrectionThreshold == 50
ContradictionLimit == 3
CorrectionLimit == 1
RecallLimit == 10
TextLimit == 5
GraphThreshold == 3
GraphSeeds == 2
GraphDepth == 2

\* Python's None
None == "<none>"

Truthy(s) == s # None /\ s # ""

\* x or d
OrElse(x, d) == IF Truthy(x) THEN x ELSE d

Min(a, b) == IF a < b THEN a ELSE b

Take(s, n) == SubSeq(s, 1, Min(Len(s), n))

Range(s) == {s[i] : i \in 1..Len(s)}

\* ------------------------------------------------------------------ types
PrimaryGates == {"behavioral", "relational", "epistemic", "promissory", "correction"}

Gate == PrimaryGates \cup {"checkpoint", "digest", "observation"}

\* str.lower() on the gate strings of the model
Lower(s) ==
    CASE s = "BEHAVIORAL" -> "behavioral"
      [] s = "Correction" -> "correction"
      [] OTHER -> s

Gate_from_str(s) == IF Lower(s) \in Gate THEN Lower(s) ELSE None

DecayClass_from_gate(g) ==
    CASE g = "promissory" -> "never"
      [] g = "relational" -> "slow"
      [] g = "epistemic" -> "moderate"
      [] g = "behavioral" -> "fast"
      [] g = "correction" -> "moderate"
      [] g = "checkpoint" -> "fast"
      [] g = "digest" -> "moderate"
      [] g = "observation" -> "fast"

\* Memory(...) as built by do_remember
\* Memory built with access_count 0
Memory_unaccessed(id, now, gate, person, project, content) ==
    [id |-> id, created |-> now, gate |-> gate, person |-> person,
     project |-> project, confidence |-> ConfInit, last_accessed |-> now,
     access_count |-> 0, decay_class |-> DecayClass_from_gate(gate),
     content |-> content, pinned |-> FALSE, sensitivity |-> None,
     sensitivity_reason |-> None, visibility |-> "private",
     team_id |-> None, created_by |-> None]

Memory(id, now, gate, person, project, content) ==
    [id |-> id, created |-> now, gate |-> gate, person |-> person,
     project |-> project, confidence |-> ConfInit, last_accessed |-> now,
     access_count |-> 1, decay_class |-> DecayClass_from_gate(gate),
     content |-> content, pinned |-> FALSE, sensitivity |-> None,
     sensitivity_reason |-> None, visibility |-> "private",
     team_id |-> None, created_by |-> None]

\* mem_<YYYYmmdd_HHMMSS>_<4 hex>: second of the clock plus a random suffix
MemId(now, r) == <<now \div SecTicks, r>>

\* ------------------------------------------------------------ store: memory
_memory_payload(memory, user_id) ==
    [type |-> "memory", memory_id |-> memory.id, content |-> memory.content,
     person |-> OrElse(memory.person, ""), project |-> OrElse(memory.project, ""),
     user_id |-> user_id, gate |-> memory.gate, confidence |-> memory.confidence,
     created |-> memory.created, last_accessed |-> memory.last_accessed,
     access_count |-> memory.access_count, decay_class |-> memory.decay_class,
     pinned |-> memory.pinned, sensitivity |-> memory.sensitivity,
     sensitivity_reason |-> memory.sensitivity_reason,
     visibility |-> memory.visibility, team_id |-> OrElse(memory.team_id, ""),
     created_by |-> OrElse(memory.created_by, ""), edges |-> <<>>]

\* _memory_from_payload with person and project read from each other's field
_memory_from_payload_swapped(payload) ==
    [id |-> payload.memory_id, created |-> payload.created, gate |-> payload.gate,
     person |-> OrElse(payload.project, None), project |-> OrElse(payload.person, None),
     confidence |-> payload.confidence, last_accessed |-> payload.last_accessed,
     access_count |-> payload.access_count, decay_class |-> payload.decay_class,
     content |-> payload.content, pinned |-> payload.pinned,
     sensitivity |-> payload.sensitivity,
     sensitivity_reason |-> payload.sensitivity_reason,
     visibility |-> payload.visibility, team_id |-> OrElse(payload.team_id, None),
     created_by |-> OrElse(payload.created_by, None)]

\* _memory_from_payload that reads every memory as not pinned
_memory_from_payload_unpinned(payload) ==
    [id |-> payload.memory_id, created |-> payload.created, gate |-> payload.gate,
     person |-> OrElse(payload.person, None), project |-> OrElse(payload.project, None),
     confidence |-> payload.confidence, last_accessed |-> payload.last_accessed,
     access_count |-> payload.access_count, decay_class |-> payload.decay_class,
     content |-> payload.content, pinned |-> FALSE,
     sensitivity |-> payload.sensitivity,
     sensitivity_reason |-> payload.sensitivity_reason,
     visibility |-> payload.visibility, team_id |-> OrElse(payload.team_id, None),
     created_by |-> OrElse(payload.created_by, None)]

_memory_from_payload(payload) ==
    [id |-> payload.memory_id, created |-> payload.created, gate |-> payload.gate,
     person |-> OrElse(payload.person, None), project |-> OrElse(payload.project, None),
     confidence |-> payload.confidence, last_accessed |-> payload.last_accessed,
     access_count |-> payload.access_count, decay_class |-> payload.decay_class,
     content |-> payload.content, pinned |-> payload.pinned,
     sensitivity |-> payload.sensitivity,
     sensitivity_reason |-> payload.sensitivity_reason,
     visibility |-> payload.visibility, team_id |-> OrElse(payload.team_id, None),
     created_by |-> OrElse(payload.created_by, None)]

\* upsert: the point id is derived from the key alone
Upsert(m, key, payload) ==
    [k \in DOMAIN m \cup {key} |-> IF k = key THEN payload ELSE m[k]]

\* set_payload on one point
SetPayload(m, key, field, value) == [m EXCEPT ![key] = [@ EXCEPT ![field] = value]]

\* HasPoint without the user_id condition
HasPoint_anyUser(m, id, user_id) == id \in DOMAIN m

\* scroll with type=memory, memory_id=id, user_id=user, limit 1
HasPoint(m, id, user_id) == id \in DOMAIN m /\ m[id].user_id = user_id

insert_memory(m, memory, user_id, visibility, team_id, created_by) ==
    IF disabled THEN m
    ELSE LET m1 == IF Truthy(visibility) THEN [memory EXCEPT !.visibility = visibility]
                   ELSE memory
             m2 == IF Truthy(team_id) THEN [m1 EXCEPT !.team_id = team_id] ELSE m1
             m3 == IF Truthy(created_by) THEN [m2 EXCEPT !.created_by = created_by] ELSE m2
         IN Upsert(m, memory.id, _memory_payload(m3, user_id))

\* no id / no memory (None where the code expects an id or a Memory)
NoId == <<>>

NoMemory == [id |-> NoId]

get_memory(m, id, user_id) ==
    IF disabled \/ ~HasPoint(m, id, user_id) THEN NoMemory
    ELSE _memory_from_payload(m[id])

\* touch_memory that leaves last_accessed as it was
touch_memory_nostamp(m, id, user_id, now) ==
    IF disabled \/ ~HasPoint(m, id, user_id) THEN m
    ELSE [m EXCEPT ![id] = [@ EXCEPT !.access_count = @ + 1]]

\* touch_memory that leaves access_count as it was
touch_memory_nocount(m, id, user_id, now) ==
    IF disabled \/ ~HasPoint(m, id, user_id) THEN m
    ELSE [m EXCEPT ![id] = [@ EXCEPT !.last_accessed = now]]

touch_memory(m, id, user_id, now) ==
    IF disabled \/ ~HasPoint(m, id, user_id) THEN m
    ELSE [m EXCEPT ![id] = [@ EXCEPT !.last_accessed = now,
                                      !.access_count = @ + 1]]

\* the fields update_memory copies from its keyword arguments
UpdatableFields == {"content", "gate", "person", "project"}

\* update_memory(memory_id, user_id, **kwargs): kwargs is a function from
\* field names to values
update_memory(m, id, user_id, kwargs) ==
    IF disabled \/ ~HasPoint(m, id, user_id) THEN m
    ELSE [m EXCEPT ![id] = [f \in DOMAIN @ |->
            IF f \in UpdatableFields \cap DOMAIN kwargs THEN kwargs[f] ELSE @[f]]]

set_pinned(m, id, pinned, user_id) ==
    IF disabled \/ ~HasPoint(m, id, user_id) THEN m
    ELSE SetPayload(m, id, "pinned", pinned)

\* delete_memory: the store after the call (unchanged when nothing is found)
delete_memory(m, id, user_id) ==
    IF get_memory(m, id, user_id) = NoMemory THEN m
    ELSE [k \in DOMAIN m \ {id} |-> m[k]]

update_confidence(m, id, confidence, user_id) ==
    IF disabled \/ ~HasPoint(m, id, user_id) THEN m
    ELSE SetPayload(m, id, "confidence", confidence)

update_sensitivity(m, id, sensitivity, reason, user_id) ==
    IF disabled \/ ~HasPoint(m, id, user_id) THEN m
    ELSE [m EXCEPT ![id] = [@ EXCEPT !.sensitivity = sensitivity,
                                      !.sensitivity_reason = reason]]

Edge(to, relation) == [to |-> to, relation |-> relation]

\* add_edge without the duplicate test
add_edge_append(m, from_id, to_id, relation, user_id) ==
    IF disabled \/ ~HasPoint(m, from_id, user_id) THEN m
    ELSE SetPayload(m, from_id, "edges", Append(m[from_id].edges, Edge(to_id, relation)))

add_edge(m, from_id, to_id, relation, user_id) ==
    IF disabled \/ ~HasPoint(m, from_id, user_id) THEN m
    ELSE IF Edge(to_id, relation) \in Range(m[from_id].edges) THEN m
    ELSE SetPayload(m, from_id, "edges", Append(m[from_id].edges, Edge(to_id, relation)))

\* ---- add_edge as its two store calls, for callers that overlap
\* procs with the call of process p set to c
SetProc(p, c) == [q \in DOMAIN procs \cup {p} |-> IF q = p THEN c ELSE procs[q]]

\* process p has a call between its read and its write
InFlight(p) == p \in DOMAIN procs /\ procs[p].pc = "write"

\* the edge list set_payload writes, built on the list the caller itself holds
edges_append_reread(m, c) == Append(m[c.from_id].edges, Edge(c.to_id, c.relation))

\* the edge list set_payload writes: the list read by the scroll plus the edge
edges_append(m, c) == Append(c.edges, Edge(c.to_id, c.relation))

\* the scroll and the duplicate test; the call returns here when there is
\* nothing to write
add_edge_scroll(p, from_id, to_id, relation, user_id) ==
    LET c == [op |-> "add_edge", from_id |-> from_id, to_id |-> to_id,
              relation |-> relation, user_id |-> user_id, read_at |-> steps,
              wrote_at |-> 0, edges |-> <<>>, pc |-> "returned"]
    IN /\ ~InFlight(p)
       /\ IF disabled \/ ~HasPoint(memories, from_id, user_id) THEN procs' = SetProc(p, c)
          ELSE IF Edge(to_id, relation) \in Range(memories[from_id].edges)
          THEN procs' = SetProc(p, [c EXCEPT !.edges = memories[from_id].edges])
          ELSE procs' = SetProc(p, [c EXCEPT !.edges = memories[from_id].edges,
                                             !.pc = "write"])
       /\ UNCHANGED memories

\* set_payload({"edges": edges}) on the point found by the scroll
add_edge_set_payload(p) ==
    /\ InFlight(p)
    /\ procs[p].op = "add_edge"
    /\ memories' = IF procs[p].from_id \in DOMAIN memories
                   THEN SetPayload(memories, procs[p].from_id, "edges",
                                   edges_append(memories, procs[p]))
                   ELSE memories
    /\ procs' = SetProc(p, [procs[p] EXCEPT !.pc = "done", !.wrote_at = steps])

\* ------------------------------------------------------------ store: search
\* _build_memory_filter applied to one payload
_build_memory_filter(p, user_id, team_id) ==
    /\ p.type = "memory"
    /\ IF Truthy(user_id) /\ Truthy(team_id)
       THEN \/ (p.user_id = user_id /\ p.visibility = "private")
            \/ (p.team_id = team_id /\ p.visibility = "team")
       ELSE IF Truthy(user_id) THEN p.user_id = user_id
       ELSE TRUE

\* The index's answer to one query: an order of the candidate points (best
\* first) and the number of leading points in each score band.
Perms(S) == {s \in [1..Cardinality(S) -> S] : \A i, j \in DOMAIN s : i # j => s[i] # s[j]}

Scores == <<90, 70, 40>>

ScoreAt(i, h, k) == IF i <= h THEN Scores[1] ELSE IF i <= k THEN Scores[2] ELSE Scores[3]

Ranked(rank, h, k) == [i \in DOMAIN rank |-> [id |-> rank[i], score |-> ScoreAt(i, h, k)]]

\* query_points(prefetch dense+sparse with the filter, RRF, limit)
search(m, ranked, limit, user_id, team_id) ==
    IF disabled THEN <<>>
    ELSE LET Match(hit) == hit.id \in DOMAIN m /\ _build_memory_filter(m[hit.id], user_id, team_id)
         IN Take(SelectSeq(ranked, Match), limit)

\* MatchText on the word-tokenised content: every query token occurs
TextMatches(content, query) == Range(query) \subseteq Range(content)

\* scroll(filter + MatchText, limit): index order is given by `order`
search_text(m, order, query, limit, user_id, team_id) ==
    IF disabled THEN <<>>
    ELSE LET Match(id) == /\ id \in DOMAIN m
                          /\ _build_memory_filter(m[id], user_id, team_id)
                          /\ TextMatches(m[id].content, query)
             hits == Take(SelectSeq(order, Match), limit)
         IN [i \in DOMAIN hits |-> [id |-> hits[i], score |-> 100]]

\* find_recent_in_context with the cutoff condition left out
find_recent_in_context_nocutoff(m, exclude_id, cutoff, person, project, user_id) ==
    IF disabled THEN {}
    ELSE LET Cond(id) == /\ m[id].type = "memory"
                         /\ m[id].user_id = user_id
                         /\ (Truthy(person) => m[id].person = person)
                         /\ (Truthy(project) => m[id].project = project)
             cand == {id \in DOMAIN m : Cond(id) /\ id # exclude_id}
         IN {id \in cand : \A o \in cand : m[o].created <= m[id].created}

\* find_recent_in_context: the candidates scroll(order_by created desc) can
\* return first, after skipping exclude_id; empty when there is none
find_recent_in_context(m, exclude_id, cutoff, person, project, user_id) ==
    IF disabled THEN {}
    ELSE LET Cond(id) == /\ m[id].type = "memory"
                         /\ m[id].user_id = user_id
                         /\ (Truthy(person) => m[id].person = person)
                         /\ (Truthy(project) => m[id].project = project)
                         /\ m[id].created >= cutoff
             cand == {id \in DOMAIN m : Cond(id) /\ id # exclude_id}
         IN {id \in cand : \A o \in cand : m[o].created <= m[id].created}

\* ----------------------------------------------------------- store: journal
_journal_point_id(user_id, timestamp, content) == <<user_id, timestamp, Take(content, PrefixLen)>>

DateOf(ts) == ts \div DayTicks

insert_journal(j, entry, user_id) ==
    IF disabled THEN j
    ELSE Upsert(j, _journal_point_id(user_id, entry.timestamp, entry.content),
                [type |-> "journal", user_id |-> user_id, gate |-> entry.gate,
                 content |-> entry.content, person |-> entry.person,
                 project |-> entry.project, timestamp |-> entry.timestamp,
                 date |-> DateOf(entry.timestamp)])

JournalEntry(now, gate, content, person, project) ==
    [timestamp |-> now, gate |-> gate, content |-> content, person |-> person,
     project |-> project]

\* the points of a collection without the keys in `gone`
Without(m, gone) == [k \in DOMAIN m \ gone |-> m[k]]

\* digest text, one per ISO week
DigestText(week) == <<"digest " \o ToString(week)>>

\* the "yyyy-Www" date key of a day; week keys are kept apart from day keys
\* (which are >= 0) by counting them below zero
WeekOf(date) == 0 - (date \div 7) - 1

\* insert_journal_raw: timestamp is the time of the call, date is given
insert_journal_raw(j, date, gate, content, person, project, user_id, now) ==
    IF disabled THEN j
    ELSE Upsert(j, _journal_point_id(user_id, now, content),
                [type |-> "journal", user_id |-> user_id, gate |-> gate,
                 content |-> content, person |-> person, project |-> project,
                 timestamp |-> now, date |-> date])

\* the keys of the journal points of one date
journal_by_date(j, date, user_id) ==
    IF disabled THEN {}
    ELSE {k \in DOMAIN j : j[k].user_id = user_id /\ j[k].date = date}

\* the dates that have an entry older than max_age_days
stale_journal_dates(j, max_age_days, user_id, now) ==
    IF disabled THEN {}
    ELSE {j[k].date : k \in {x \in DOMAIN j :
              /\ j[x].user_id = user_id
              /\ j[x].timestamp < now - max_age_days * DayTicks}}

\* archive_journal_date without the date condition
archive_journal_date_all(j, date, user_id) ==
    IF disabled THEN j
    ELSE Without(j, {k \in DOMAIN j : j[k].user_id = user_id})

archive_journal_date(j, date, user_id) ==
    IF disabled THEN j
    ELSE Without(j, {k \in DOMAIN j : j[k].user_id = user_id /\ j[k].date = date})

RECURSIVE ArchiveDays(_, _, _)
\* archive_journal_date for each of the days
ArchiveDays(j, days, user_id) ==
    IF days = {} THEN j
    ELSE LET d == CHOOSE x \in days : TRUE
         IN ArchiveDays(archive_journal_date(j, d, user_id), days \ {d}, user_id)

\* ----------------------------------------------------------- store: identity
_identity_point_id(user_id) == <<"identity", user_id>>

IdentityCard(person, project, content, last_updated) ==
    [person |-> person, project |-> project, content |-> content,
     last_updated |-> last_updated]

NoCard == [content |-> None]

\* the identity points a scroll for user_id can return (limit 1 takes one)
IdentityPoints(i, user_id) == {k \in DOMAIN i : i[k].user_id = user_id}

\* get_identity: the cards the call may return
get_identity(i, user_id) ==
    IF disabled \/ IdentityPoints(i, user_id) = {} THEN {NoCard}
    ELSE {IdentityCard(i[k].person, i[k].project, i[k].content, i[k].last_updated) :
              k \in IdentityPoints(i, user_id)}

set_identity(i, card, user_id) ==
    IF disabled THEN i
    ELSE Upsert(i, _identity_point_id(user_id),
                [type |-> "identity", user_id |-> user_id, person |-> card.person,
                 project |-> card.project, content |-> card.content,
                 last_updated |-> card.last_updated])

\* -------------------------------------------------------------- store: rules
_rule_point_id(rule_id, user_id) == <<"rule", user_id, rule_id>>

\* the rule points a scroll for rule_id and user_id returns
RulePoints(rs, rule_id, user_id) ==
    {k \in DOMAIN rs : rs[k].rule_id = rule_id /\ rs[k].user_id = user_id}

insert_rule(rs, rule_id, user_id, scope, condition, enforcement, now) ==
    IF disabled THEN rs
    ELSE Upsert(rs, _rule_point_id(rule_id, user_id),
                [type |-> "rule", rule_id |-> rule_id, user_id |-> user_id,
                 scope |-> scope, condition |-> condition, enforcement |-> enforcement,
                 created |-> now, last_triggered |-> None,
                 content |-> <<scope, condition, enforcement>>])

\* the keyword arguments update_rule keeps
AllowedRuleFields == {"scope", "condition", "enforcement"}

\* update_rule that copies every keyword argument into the payload
RuleUpdates_all(kwargs) == kwargs

RuleUpdates(kwargs) == [f \in DOMAIN kwargs \cap AllowedRuleFields |-> kwargs[f]]

\* update_rule: [rules, ok]
update_rule(rs, rule_id, user_id, kwargs) ==
    LET updates == RuleUpdates(kwargs)
        points == RulePoints(rs, rule_id, user_id)
    IN IF disabled \/ DOMAIN updates = {} \/ points = {}
       THEN [rules |-> rs, ok |-> FALSE]
       ELSE LET k == CHOOSE x \in points : TRUE
            IN [rules |-> [rs EXCEPT ![k] = [f \in DOMAIN @ \cup DOMAIN updates |->
                               IF f \in DOMAIN updates THEN updates[f] ELSE @[f]]],
                ok |-> TRUE]

\* delete_rule: [rules, ok]
delete_rule(rs, rule_id, user_id) ==
    IF disabled \/ RulePoints(rs, rule_id, user_id) = {}
    THEN [rules |-> rs, ok |-> FALSE]
    ELSE [rules |-> Without(rs, RulePoints(rs, rule_id, user_id)), ok |-> TRUE]

\* ---------------------------------------------------------- store: migration
count_memories(m, user_id) ==
    IF disabled THEN 0 ELSE Cardinality({k \in DOMAIN m : m[k].user_id = user_id})

\* Relabel that leaves the points where they are
Relabel_none(c, from_id, to_id) == c

\* set_payload({"user_id": to_id}) on every point of one collection part that
\* carries user_id = from_id
Relabel(c, from_id, to_id) ==
    [k \in DOMAIN c |-> IF c[k].user_id = from_id
                        THEN [c[k] EXCEPT !.user_id = to_id] ELSE c[k]]

\* the number of points migrate_user_id returns
Migrated(m, j, i, rs, from_id) ==
    Cardinality({k \in DOMAIN m : m[k].user_id = from_id})
    + Cardinality({k \in DOMAIN j : j[k].user_id = from_id})
    + Cardinality({k \in DOMAIN i : i[k].user_id = from_id})
    + Cardinality({k \in DOMAIN rs : rs[k].user_id = from_id})

\* ------------------------------------------------- tools/remember.py helpers
\* Half without the factor
Half_same(c) == c

\* old.confidence * 0.5
Half(c) == c \div 2

\* check_pii: a stateless pass over the content giving an optional warning
check_pii(content) == IF "pii" \in Range(content) THEN "pii" ELSE None

\* classify_single: the level the synthesizer returned is stored on the
\* memory unless it is safe or unknown
classify_single(m, mem_id, user_id, level) ==
    IF level \in {"safe", "unknown"} THEN m
    ELSE update_sensitivity(m, mem_id, level, "reason", user_id)

\* what one operation reports; the fields an operation does not use keep
\* their empty values
Blank ==
    [op |-> "init", user_id |-> None, team_id |-> None, content |-> <<>>,
     gate_str |-> None, person |-> None, project |-> None, visibility |-> None,
     now |-> 0, status |-> None, id |-> NoId, warning |-> {}, target |-> NoId,
     above |-> {}, recent |-> NoId, fails |-> {}, cls |-> None, results |-> <<>>,
     relation |-> None, depth |-> 0, graph |-> FALSE, seeds |-> <<>>,
     from_id |-> None, count |-> 0, rule_id |-> None, fields |-> {},
     key_id |-> None, key_hash |-> NoId, role |-> None]

\* the side-effect steps of do_remember whose first store call may raise
FailPoints == {"contradiction", "correction", "follows"}

\* get_api_key() and the outcome of classify_single
ClassOutcomes == {"nokey", "safe", "sensitive", "raise"}

\* the answers the index may give to one query: every order of the points,
\* every split of that order into the three score bands
Rankings(ids) ==
    {Ranked(rank, b[1], b[2]) : rank \in Perms(ids),
                                b \in {x \in (0..Cardinality(ids)) \X (0..Cardinality(ids)) : x[1] <= x[2]}}

\* the same with every point in the top score band
TopRankings(ids) == {Ranked(rank, Len(rank), Len(rank)) : rank \in Perms(ids)}

\* the points a ranking covers when the memory `id` has just been stored
Indexed(id) == IF disabled THEN {} ELSE DOMAIN memories \cup {id}

\* ------------------------------------------------------- tools/remember.py
\* TeamMissing with the check removed
TeamMissing_never(visibility, team_id) == FALSE

\* visibility == "team" and not team_id
TeamMissing(visibility, team_id) == visibility = "team" /\ ~Truthy(team_id)

\* Caught with the exception handlers removed: the failure leaves do_remember
Caught_propagates(fails, cls) ==
    IF fails # {} \/ cls = "raise" THEN "raised" ELSE "remembered"

\* every `except Exception` of the side-effect steps logs and goes on
Caught(fails, cls) == "remembered"

\* 4. contradiction check: the warning it adds
Contradiction(m, inp, mem_id, ranked, fails) ==
    LET similar == search(m, ranked, ContradictionLimit, inp.user_id, inp.team_id)
        Hit(i) == /\ similar[i].id # mem_id
                  /\ similar[i].score > ContradictionThreshold
                  /\ LET existing == get_memory(m, similar[i].id, inp.user_id)
                     IN existing.id # NoId /\ existing.content # inp.content
    IN IF "contradiction" \notin fails /\ \E i \in DOMAIN similar : Hit(i)
       THEN {"similarity"} ELSE {}

\* 5. correction gate: CONTRADICTS edge and downgrade of the one search hit
Correction(m, inp, mem_id, gate, ranked, fails) ==
    LET similar == IF gate = "correction" /\ "correction" \notin fails
                   THEN search(m, ranked, CorrectionLimit, inp.user_id, None) ELSE <<>>
        matched == {i \in DOMAIN similar : /\ similar[i].id # mem_id
                                           /\ similar[i].score > CorrectionThreshold}
        target == IF matched = {} THEN NoId ELSE similar[CHOOSE i \in matched : TRUE].id
        m1 == IF target = NoId THEN m
              ELSE add_edge(m, mem_id, target, "CONTRADICTS", inp.user_id)
        old == IF target = NoId THEN NoMemory ELSE get_memory(m1, target, inp.user_id)
        m2 == IF old.id = NoId THEN m1
              ELSE update_confidence(m1, target, Half(old.confidence), inp.user_id)
    IN [m |-> m2, target |-> target]

\* the stored memories of the caller, other than the new one, that the index
\* scores above the correction threshold for this query
Above(m, inp, mem_id, gate, ranked, fails) ==
    IF gate = "correction" /\ "correction" \notin fails /\ ~disabled
    THEN {ranked[x].id : x \in {i \in DOMAIN ranked :
             /\ ranked[i].id # mem_id
             /\ ranked[i].id \in DOMAIN m
             /\ ranked[i].score > CorrectionThreshold
             /\ _build_memory_filter(m[ranked[i].id], inp.user_id, None)}}
    ELSE {}

\* 6. memory chain: FOLLOWS edge to the most recent memory in context
Follows(m, inp, mem_id, fails, recentPick) ==
    LET chain == Truthy(inp.person) \/ Truthy(inp.project)
        recent_id == IF chain /\ "follows" \notin fails THEN recentPick ELSE NoId
    IN [m |-> IF recent_id = NoId THEN m
              ELSE add_edge(m, mem_id, recent_id, "FOLLOWS", inp.user_id),
        recent |-> recent_id]

\* 8. sensitivity classification
Classify(m, inp, mem_id, cls) ==
    [m |-> IF cls \in {"nokey", "raise"} THEN m
           ELSE classify_single(m, mem_id, inp.user_id, cls),
     warning |-> IF cls \in {"nokey", "raise", "safe", "unknown"} THEN {}
                 ELSE {"sensitivity"}]

\* steps 4..8 of do_remember on the store m1 that holds the new memory
SideEffects(inp, m1, mem_id, gate, ranked, fails, cls, recentPick) ==
    LET warn4 == Contradiction(m1, inp, mem_id, ranked, fails)
        s5 == Correction(m1, inp, mem_id, gate, ranked, fails)
        s6 == Follows(s5.m, inp, mem_id, fails, recentPick)
        warn7 == IF check_pii(inp.content) # None THEN {"pii"} ELSE {}
        s8 == Classify(s6.m, inp, mem_id, cls)
    IN [m |-> s8.m,
        last |-> [inp EXCEPT !.status = Caught(fails, cls), !.id = mem_id,
                     !.warning = warn4 \cup warn7 \cup s8.warning,
                     !.target = s5.target,
                     !.above = Above(m1, inp, mem_id, gate, ranked, fails),
                     !.recent = s6.recent, !.fails = fails, !.cls = cls]]

\* the choices find_recent_in_context leaves open for the new memory
RecentPicks(m, inp, mem_id) ==
    LET recents == find_recent_in_context(m, mem_id, inp.now - DayTicks, inp.person,
                                          inp.project, inp.user_id)
    IN IF recents = {} THEN {NoId} ELSE recents

\* the arguments of one do_remember call, as the record it reports
Inputs(user_id, content, gate_str, person, project, visibility, team_id, now) ==
    [Blank EXCEPT !.op = "remember", !.user_id = user_id, !.team_id = team_id,
        !.content = content, !.gate_str = gate_str, !.person = person,
        !.project = project, !.visibility = visibility, !.now = now]

\* Journaled with the journal insert left out
Journaled_skipped(j, inp, gate) == j

\* 1. journal entry
Journaled(j, inp, gate) ==
    insert_journal(j, JournalEntry(inp.now, gate, inp.content, inp.person, inp.project),
                   inp.user_id)

\* 2. insert memory
Inserted(m, inp, mem_id, gate) ==
    insert_memory(m, Memory(mem_id, inp.now, gate, inp.person, inp.project, inp.content),
                  inp.user_id,
                  IF inp.visibility # "private" THEN inp.visibility ELSE None,
                  IF inp.visibility = "team" THEN inp.team_id ELSE None,
                  IF inp.visibility = "team" THEN inp.user_id ELSE None)

\* one call of do_remember, start to return
do_remember(user_id, content, gate_str, person, project, visibility, team_id, r, ranked, fails, cls) ==
    LET gate == Gate_from_str(gate_str)
        mem_id == MemId(clock, r)
        inp == Inputs(user_id, content, gate_str, person, project, visibility, team_id, clock)
        m1 == Inserted(memories, inp, mem_id, gate)
    IN /\ cur.pc = "idle"
       /\ UNCHANGED <<others, disabled, clock, cur>>
       /\ IF gate = None
          THEN /\ last' = [inp EXCEPT !.status = "invalid gate"]
               /\ UNCHANGED <<memories, journal>>
          ELSE IF TeamMissing(visibility, team_id)
          THEN /\ journal' = Journaled(journal, inp, gate)
               /\ last' = [inp EXCEPT !.status = "no team"]
               /\ UNCHANGED memories
          ELSE \* step 5 changes no field the scroll of step 6 filters or orders on
               \E recentPick \in RecentPicks(m1, inp, mem_id) :
                    LET out == SideEffects(inp, m1, mem_id, gate, ranked, fails, cls, recentPick)
                    IN /\ journal' = Journaled(journal, inp, gate)
                       /\ memories' = out.m
                       /\ last' = out.last

\* the same call one store write at a time: cur holds the position of the
\* call and its local variables
Idle == [pc |-> "idle", inp |-> Blank, mem_id |-> NoId, gate |-> None]

remember_journal(user_id, content, gate_str, person, project, visibility, team_id, r) ==
    LET gate == Gate_from_str(gate_str)
        inp == Inputs(user_id, content, gate_str, person, project, visibility, team_id, clock)
    IN /\ cur.pc = "idle"
       /\ UNCHANGED <<others, disabled, clock, memories>>
       /\ IF gate = None
          THEN /\ last' = [inp EXCEPT !.status = "invalid gate"]
               /\ UNCHANGED <<journal, cur>>
          ELSE /\ journal' = Journaled(journal, inp, gate)
               /\ cur' = [pc |-> "journal", inp |-> inp, mem_id |-> MemId(clock, r),
                          gate |-> gate]
               /\ last' = [inp EXCEPT !.status = "running"]

remember_memory ==
    /\ cur.pc = "journal"
    /\ UNCHANGED <<others, disabled, clock, journal>>
    /\ IF TeamMissing(cur.inp.visibility, cur.inp.team_id)
       THEN /\ last' = [cur.inp EXCEPT !.status = "no team"]
            /\ cur' = Idle
            /\ UNCHANGED memories
       ELSE /\ memories' = Inserted(memories, cur.inp, cur.mem_id, cur.gate)
            /\ cur' = [cur EXCEPT !.pc = "memory"]
            /\ UNCHANGED last

remember_effects(ranked, fails, cls) ==
    /\ cur.pc = "memory"
    /\ UNCHANGED <<others, disabled, clock, journal>>
    /\ \E recentPick \in RecentPicks(memories, cur.inp, cur.mem_id) :
         LET out == SideEffects(cur.inp, memories, cur.mem_id, cur.gate, ranked, fails,
                                cls, recentPick)
         IN /\ memories' = out.m
            /\ last' = out.last
            /\ cur' = Idle

\* ------------------------------------------------------- store: find_related
RECURSIVE ScanEdges(_, _, _, _, _, _)
\* the inner loop of find_related over the edges of one frontier memory
ScanEdges(m, user_id, edges, i, d, st) ==
    IF i > Len(edges) THEN st
    ELSE LET target == edges[i].to
         IN IF target \in st.visited THEN ScanEdges(m, user_id, edges, i + 1, d, st)
            ELSE LET st1 == [st EXCEPT !.visited = @ \cup {target},
                                       !.next = Append(@, target)]
                     st2 == IF HasPoint(m, target, user_id)
                            THEN [st1 EXCEPT !.results = Append(@,
                                     [id |-> target, content |-> m[target].content,
                                      gate |-> m[target].gate,
                                      relation |-> edges[i].relation, depth |-> d])]
                            ELSE st1
                 IN ScanEdges(m, user_id, edges, i + 1, d, st2)

RECURSIVE ScanFrontier(_, _, _, _, _, _)
ScanFrontier(m, user_id, frontier, i, d, st) ==
    IF i > Len(frontier) THEN st
    ELSE IF ~HasPoint(m, frontier[i], user_id)
         THEN ScanFrontier(m, user_id, frontier, i + 1, d, st)
         ELSE ScanFrontier(m, user_id, frontier, i + 1, d,
                           ScanEdges(m, user_id, m[frontier[i]].edges, 1, d, st))

RECURSIVE Levels(_, _, _, _, _, _)
Levels(m, user_id, frontier, d, depth, st) ==
    IF d > depth THEN st.results
    ELSE LET st1 == ScanFrontier(m, user_id, frontier, 1, d, [st EXCEPT !.next = <<>>])
         IN Levels(m, user_id, st1.next, d + 1, depth, st1)

\* find_related with the start id missing from the visited set
find_related_nostart(m, memory_id, depth, user_id) ==
    IF disabled THEN <<>>
    ELSE Levels(m, user_id, <<memory_id>>, 1, depth,
                [visited |-> {}, next |-> <<>>, results |-> <<>>])

find_related(m, memory_id, depth, user_id) ==
    IF disabled THEN <<>>
    ELSE Levels(m, user_id, <<memory_id>>, 1, depth,
                [visited |-> {memory_id}, next |-> <<>>, results |-> <<>>])

\* ---------------------------------------------------------- tools/recall.py
TeamUser(team_id) == "team:" \o team_id

_source_tag(mem, team_id) ==
    IF ~Truthy(team_id) THEN ""
    ELSE IF mem.visibility = "team" THEN "[team] " ELSE "[private] "

\* do_recall._get_memory: private namespace first, then the team namespace
_get_memory(m, mem_id, user_id, team_id) ==
    LET mem == get_memory(m, mem_id, user_id)
    IN IF mem.id = NoId /\ Truthy(team_id)
       THEN get_memory(m, mem_id, TeamUser(team_id)) ELSE mem

RECURSIVE Materialize(_, _, _, _, _, _, _)
\* the loop over the hits of one search stage; acc = [m, seen, results]
Materialize(hits, i, user_id, team_id, now, kind, acc) ==
    IF i > Len(hits) THEN acc
    ELSE LET id == hits[i].id
         IN IF id \in acc.seen THEN Materialize(hits, i + 1, user_id, team_id, now, kind, acc)
            ELSE LET full == _get_memory(acc.m, id, user_id, team_id)
                     acc1 == [acc EXCEPT !.seen = @ \cup {id}]
                     acc2 == IF full.id = NoId THEN acc1
                             ELSE [acc1 EXCEPT !.m = touch_memory(@, id, user_id, now),
                                               !.results = Append(@,
                                                  [id |-> full.id, kind |-> kind,
                                                   tag |-> _source_tag(full, team_id)])]
                 IN Materialize(hits, i + 1, user_id, team_id, now, kind, acc2)

RECURSIVE Expand(_, _, _)
\* the loop over the traversal of one seed; acc = [m, seen, results]
Expand(related, i, acc) ==
    IF i > Len(related) THEN acc
    ELSE LET rid == related[i].id
         IN IF rid \in acc.seen THEN Expand(related, i + 1, acc)
            ELSE Expand(related, i + 1,
                        [acc EXCEPT !.seen = @ \cup {rid},
                                    !.results = Append(@, [id |-> rid, kind |-> "graph",
                                                           tag |-> related[i].relation])])

RECURSIVE Graph(_, _, _, _)
Graph(seeds, i, user_id, acc) ==
    IF i > Len(seeds) THEN acc
    ELSE Graph(seeds, i + 1, user_id,
               Expand(find_related(acc.m, seeds[i], GraphDepth, user_id), 1, acc))

\* the stages of do_recall that may raise
RecallFailPoints == {"search", "text", "graph"}

do_recall(query, user_id, team_id, fails) ==
    LET now == clock
        inp == [Blank EXCEPT !.op = "recall", !.user_id = user_id, !.team_id = team_id,
                   !.content = query, !.now = now]
        acc0 == [m |-> memories, seen |-> {}, results |-> <<>>]
    IN /\ cur.pc = "idle"
       /\ UNCHANGED <<others, disabled, clock, journal, cur>>
       /\ \E rank \in Perms(DOMAIN memories) :
            LET \* 1. hybrid search
                vec_results == IF "search" \in fails THEN <<>>
                               ELSE search(memories, Ranked(rank, 0, 0), RecallLimit,
                                           user_id, team_id)
                acc1 == Materialize(vec_results, 1, user_id, team_id, now, "vector", acc0)
                \* 2. text search fallback
                textStage == acc1.results = <<>> /\ ~disabled
            IN \E order \in IF textStage /\ "text" \notin fails
                            THEN Perms(DOMAIN memories) ELSE {<<>>} :
                 LET text_results == search_text(memories, order, query, TextLimit,
                                                 user_id, team_id)
                     acc2 == Materialize(text_results, 1, user_id, team_id, now, "text", acc1)
                     \* 3. graph traversal for sparse results
                     graphStage == Len(acc2.results) < GraphThreshold
                     nseed == Min(GraphSeeds, Cardinality(acc2.seen))
                 IN \E seeds \in IF graphStage
                                 THEN {s \in [1..nseed -> acc2.seen] :
                                         \A a, b \in 1..nseed : a # b => s[a] # s[b]}
                                 ELSE {<<>>} :
                      IF graphStage /\ seeds # <<>> /\ "graph" \in fails
                      THEN /\ memories' = acc2.m
                           /\ last' = [inp EXCEPT !.status = "raised", !.fails = fails,
                                             !.graph = graphStage, !.seeds = seeds]
                      ELSE LET acc3 == Graph(seeds, 1, user_id, acc2)
                           IN /\ memories' = acc3.m
                              /\ last' = [inp EXCEPT
                                    !.status = IF acc3.results = <<>> THEN "none" ELSE "found",
                                    !.results = acc3.results, !.fails = fails,
                                    !.graph = graphStage, !.seeds = seeds]

\* --------------------------------------------------------- tools/forget.py
\* role is what auth_db.get_member_role answers for the caller
do_forget(memory_id, user_id, team_id, role) ==
    LET inp == [Blank EXCEPT !.op = "forget", !.user_id = user_id, !.team_id = team_id,
                   !.id = memory_id, !.now = clock, !.role = role]
        private == get_memory(memories, memory_id, user_id)
        team_mem == IF private = NoMemory /\ Truthy(team_id)
                    THEN get_memory(memories, memory_id, TeamUser(team_id)) ELSE NoMemory
        refused == /\ team_mem # NoMemory
                   /\ Truthy(team_mem.created_by)
                   /\ team_mem.created_by # user_id
                   /\ role \notin {"owner", "admin"}
    IN /\ cur.pc = "idle"
       /\ UNCHANGED <<others, disabled, clock, journal, cur>>
       /\ IF private # NoMemory
          THEN /\ memories' = delete_memory(memories, memory_id, user_id)
               /\ last' = [inp EXCEPT !.status = "forgotten"]
          ELSE IF refused
          THEN /\ UNCHANGED memories
               /\ last' = [inp EXCEPT !.status = "not allowed"]
          ELSE IF team_mem # NoMemory
          THEN /\ memories' = delete_memory(memories, memory_id, TeamUser(team_id))
               /\ last' = [inp EXCEPT !.status = "forgotten"]
          ELSE /\ UNCHANGED memories
               /\ last' = [inp EXCEPT !.status = "not found"]

\* ------------------------------------------------------------- api/app.py
\* PATCH /memories/{id}
api_update_memory(id, user_id, updates) ==
    LET inp == [Blank EXCEPT !.op = "update", !.user_id = user_id, !.id = id, !.now = clock]
    IN /\ cur.pc = "idle"
       /\ UNCHANGED <<others, disabled, clock, journal, cur>>
       /\ IF get_memory(memories, id, user_id) = NoMemory
          THEN /\ UNCHANGED memories
               /\ last' = [inp EXCEPT !.status = "404"]
          ELSE IF DOMAIN updates = {}
          THEN /\ UNCHANGED memories
               /\ last' = [inp EXCEPT !.status = "no changes"]
          ELSE /\ memories' = update_memory(memories, id, user_id, updates)
               /\ last' = [inp EXCEPT !.status = "updated"]

\* POST and DELETE /memories/{id}/pin
api_pin_memory(id, user_id, pinned) ==
    LET inp == [Blank EXCEPT !.op = "pin", !.user_id = user_id, !.id = id, !.now = clock]
    IN /\ cur.pc = "idle"
       /\ UNCHANGED <<others, disabled, clock, journal, cur>>
       /\ IF get_memory(memories, id, user_id) = NoMemory
          THEN /\ UNCHANGED memories
               /\ last' = [inp EXCEPT !.status = "404"]
          ELSE /\ memories' = set_pinned(memories, id, pinned, user_id)
               /\ last' = [inp EXCEPT !.status = IF pinned THEN "pinned" ELSE "unpinned"]

\* ------------------------------------------------------- store/__init__.py
\* Store.migrate_user_data: migrate_user_id on the whole collection
migrate_user_data(from_id, to_id) ==
    /\ cur.pc = "idle"
    /\ memories' = IF disabled THEN memories ELSE Relabel(memories, from_id, to_id)
    /\ journal' = IF disabled THEN journal ELSE Relabel(journal, from_id, to_id)
    /\ identity' = IF disabled THEN identity ELSE Relabel(identity, from_id, to_id)
    /\ rules' = IF disabled THEN rules ELSE Relabel(rules, from_id, to_id)
    /\ last' = [Blank EXCEPT !.op = "migrate", !.from_id = from_id, !.user_id = to_id,
                    !.now = clock, !.status = "migrated",
                    !.count = IF disabled THEN 0
                              ELSE Migrated(memories, journal, identity, rules, from_id)]
    /\ UNCHANGED <<disabled, clock, cur, procs, _jwk_client, _jwk_cache_time, _jwk_lock, auth_db>>

\* cmk claim / POST /claim-local: local data goes to the logged-in user;
\* cmk export: the user's data goes back to local
claim_local(uid) ==
    /\ uid # "local"
    /\ IF count_memories(memories, "local") = 0
       THEN /\ cur.pc = "idle"
            /\ last' = [Blank EXCEPT !.op = "migrate", !.from_id = "local", !.user_id = uid,
                            !.now = clock, !.status = "no local data"]
            /\ UNCHANGED <<others, disabled, clock, memories, journal, cur>>
       ELSE migrate_user_data("local", uid)

export_data(uid) ==
    /\ uid # "local"
    /\ IF count_memories(memories, uid) = 0
       THEN /\ cur.pc = "idle"
            /\ last' = [Blank EXCEPT !.op = "migrate", !.from_id = uid, !.user_id = "local",
                            !.now = clock, !.status = "no cloud data"]
            /\ UNCHANGED <<others, disabled, clock, memories, journal, cur>>
       ELSE migrate_user_data(uid, "local")

\* PUT /identity
api_update_identity(user_id, content) ==
    /\ cur.pc = "idle"
    /\ identity' = set_identity(identity, IdentityCard(None, None, content, clock), user_id)
    /\ last' = [Blank EXCEPT !.op = "set_identity", !.user_id = user_id, !.content = content,
                    !.now = clock, !.status = "updated"]
    /\ UNCHANGED <<disabled, clock, memories, journal, cur, rules, procs,
                   _jwk_client, _jwk_cache_time, _jwk_lock, auth_db>>

\* ----------------------------------------------------------- rule operations
\* store.qdrant.insert_rule called by POST /rules and the CLI
create_rule(rule_id, user_id, scope, condition, enforcement) ==
    /\ cur.pc = "idle"
    /\ rules' = insert_rule(rules, rule_id, user_id, scope, condition, enforcement, clock)
    /\ last' = [Blank EXCEPT !.op = "insert_rule", !.user_id = user_id,
                    !.rule_id = rule_id, !.now = clock, !.status = "created"]
    /\ UNCHANGED <<disabled, clock, memories, journal, cur, identity, procs,
                   _jwk_client, _jwk_cache_time, _jwk_lock, auth_db>>

\* store.qdrant.update_rule(rule_id, user_id, **kwargs) and its return value
store_update_rule(rule_id, user_id, kwargs) ==
    LET r == update_rule(rules, rule_id, user_id, kwargs)
    IN /\ cur.pc = "idle"
       /\ rules' = r.rules
       /\ last' = [Blank EXCEPT !.op = "update_rule", !.user_id = user_id,
                       !.rule_id = rule_id, !.fields = DOMAIN kwargs, !.now = clock,
                       !.status = IF r.ok THEN "True" ELSE "False"]
       /\ UNCHANGED <<disabled, clock, memories, journal, cur, identity, procs,
                      _jwk_client, _jwk_cache_time, _jwk_lock, auth_db>>

\* store.qdrant.delete_rule(rule_id, user_id) and its return value
store_delete_rule(rule_id, user_id) ==
    LET r == delete_rule(rules, rule_id, user_id)
    IN /\ cur.pc = "idle"
       /\ rules' = r.rules
       /\ last' = [Blank EXCEPT !.op = "delete_rule", !.user_id = user_id,
                       !.rule_id = rule_id, !.now = clock,
                       !.status = IF r.ok THEN "True" ELSE "False"]
       /\ UNCHANGED <<disabled, clock, memories, journal, cur, identity, procs,
                      _jwk_client, _jwk_cache_time, _jwk_lock, auth_db>>

\* --------------------------------------------------------- tools/reflect.py
\* half_life_days of a decay class other than never
half_life_days(decay_class) ==
    CASE decay_class = "slow" -> 180
      [] decay_class = "moderate" -> 90
      [] decay_class = "fast" -> 30

\* the age, in thousandths of a half-life, above which a memory with the given
\* access_count scores below 0.05: 1000 * log2(20 * log2(access_count + 1));
\* access counts above 5 do not occur within the bounds
FadeAfter(access_count) == <<4322, 4986, 5322, 5537, 5692>>[Min(access_count, 5)]

\* is_fading: decay_class is not never and recency * frequency < 0.05
is_fading(mem, now) ==
    /\ mem.decay_class # "never"
    /\ \/ mem.access_count = 0
       \/ (now - mem.last_accessed) * 1000
            > half_life_days(mem.decay_class) * DayTicks * FadeAfter(mem.access_count)

StaleDays == 14
RecentDays == 2

RECURSIVE ConsolidateWeeks(_, _, _, _, _)
\* step 2 of Reflect: one digest per week, then the source days are deleted
ConsolidateWeeks(j, days, weeks, user_id, now) ==
    IF weeks = {} THEN j
    ELSE LET w == CHOOSE x \in weeks : \A y \in weeks : x >= y
             src == {d \in days : WeekOf(d) = w}
             digested == insert_journal_raw(j, w, "digest", DigestText(w), None, None,
                                            user_id, now)
         IN ConsolidateWeeks(ArchiveDays(digested, src, user_id), days, weeks \ {w},
                             user_id, now)

\* steps 1 and 2: the journal days older than 14 days, grouped by ISO week
consolidate_journals(j, user_id, now) ==
    LET days == {d \in stale_journal_dates(j, StaleDays, user_id, now) :
                    d >= 0 /\ journal_by_date(j, d, user_id) # {}}
    IN ConsolidateWeeks(j, days, {WeekOf(d) : d \in days}, user_id, now)

\* step 3: a memory Reflect deletes
Deletable(mem, now) == ~mem.pinned /\ is_fading(mem, now)

\* the stages of do_reflect that may raise
ReflectFailPoints == {"consolidate", "archive", "identity"}

do_reflect(user_id, has_key, fails) ==
    LET now == clock
        j1 == IF has_key /\ "consolidate" \notin fails
              THEN consolidate_journals(journal, user_id, now) ELSE journal
        fading == IF disabled \/ "archive" \in fails THEN {}
                  ELSE {id \in DOMAIN memories :
                           /\ memories[id].user_id = user_id
                           /\ Deletable(_memory_from_payload(memories[id]), now)}
        recent == {k \in DOMAIN j1 : /\ j1[k].user_id = user_id
                                     /\ j1[k].timestamp >= now - RecentDays * DayTicks}
        regen == has_key /\ ~disabled /\ recent # {} /\ "identity" \notin fails
    IN /\ cur.pc = "idle"
       /\ journal' = j1
       /\ memories' = Without(memories, fading)
       /\ \E old \in get_identity(identity, user_id) :
            identity' = IF regen
                        THEN set_identity(identity,
                                 IdentityCard(IF old = NoCard THEN None ELSE old.person,
                                              IF old = NoCard THEN None ELSE old.project,
                                              <<"identity">>, now), user_id)
                        ELSE identity
       /\ last' = [Blank EXCEPT !.op = "reflect", !.user_id = user_id, !.now = now,
                       !.fails = fails, !.status = "reflected",
                       !.count = Cardinality(fading)]
       /\ UNCHANGED <<disabled, clock, cur, rules, procs,
                      _jwk_client, _jwk_cache_time, _jwk_lock, auth_db>>

\* ------------------------------------------------------------------ auth.py
\* _jwk_client is None; clients are numbered in the order they are constructed
NoClient == 0

\* _jwk_lock is free; a held lock carries its holder
Unlocked == 0

\* one hour
_JWK_CACHE_TTL == 3600 * SecTicks

\* the cached client may be used
Fresh(client, cache_time, now) == client # NoClient /\ now - cache_time < _JWK_CACHE_TTL

\* a check under the lock that never trusts the cache
DoubleCheck_never(client, cache_time, now) == FALSE

\* the check after acquiring the lock
DoubleCheck(client, cache_time, now) == Fresh(client, cache_time, now)

\* process p is inside _get_jwk_client at the given line
AtJwk(p, pc) == p \in DOMAIN procs /\ procs[p].op = "jwk" /\ procs[p].pc = pc

\* p's call with the given fields changed
JwkProc(p, pc, result) == SetProc(p, [procs[p] EXCEPT !.pc = pc, !.result = result])

\* now = time.time(); url is what _get_jwks_url will answer
jwk_enter(p, url) ==
    /\ p \notin DOMAIN procs
    /\ procs' = SetProc(p, [op |-> "jwk", pc |-> "test_client", now |-> clock, url |-> url,
                            stale |-> -1, checked_at |-> -1, made |-> NoClient,
                            failed |-> FALSE, result |-> NoClient])
    /\ UNCHANGED <<_jwk_client, _jwk_cache_time, _jwk_lock>>

\* the cache was found unusable: stale records which generation of it;
\* url = _get_jwks_url(); if not url: return None
JwkStale(p) ==
    SetProc(p, [procs[p] EXCEPT !.pc = IF procs[p].url THEN "acquire" ELSE "returned",
                                !.stale = _jwk_cache_time])

\* if _jwk_client and ...: the client is read
jwk_test_client(p) ==
    /\ AtJwk(p, "test_client")
    /\ procs' = IF _jwk_client # NoClient THEN JwkProc(p, "test_age", NoClient)
                ELSE JwkStale(p)
    /\ UNCHANGED <<_jwk_client, _jwk_cache_time, _jwk_lock>>

\* ... and (now - _jwk_cache_time) < _JWK_CACHE_TTL: the stamp is read
jwk_test_age(p) ==
    /\ AtJwk(p, "test_age")
    /\ procs' = IF procs[p].now - _jwk_cache_time < _JWK_CACHE_TTL
                THEN JwkProc(p, "fast_return", NoClient)
                ELSE JwkStale(p)
    /\ UNCHANGED <<_jwk_client, _jwk_cache_time, _jwk_lock>>

\* return _jwk_client, without the lock
jwk_fast_return(p) ==
    /\ AtJwk(p, "fast_return")
    /\ procs' = JwkProc(p, "returned", _jwk_client)
    /\ UNCHANGED <<_jwk_client, _jwk_cache_time, _jwk_lock>>

\* with _jwk_lock:
jwk_acquire(p) ==
    /\ AtJwk(p, "acquire")
    /\ _jwk_lock = Unlocked
    /\ _jwk_lock' = p
    /\ procs' = JwkProc(p, "double_check", NoClient)
    /\ UNCHANGED <<_jwk_client, _jwk_cache_time>>

\* the double check; a fresh cache is returned and the lock released
jwk_double_check(p) ==
    /\ AtJwk(p, "double_check")
    /\ IF DoubleCheck(_jwk_client, _jwk_cache_time, clock)
       THEN /\ procs' = SetProc(p, [procs[p] EXCEPT !.pc = "returned", !.checked_at = clock,
                                                    !.result = _jwk_client])
            /\ _jwk_lock' = Unlocked
       ELSE /\ procs' = SetProc(p, [procs[p] EXCEPT !.pc = "construct", !.checked_at = clock])
            /\ UNCHANGED _jwk_lock
    /\ UNCHANGED <<_jwk_client, _jwk_cache_time>>

\* _jwk_client = PyJWKClient(url, cache_keys=True), or the except branch
jwk_construct(p, ok) ==
    /\ AtJwk(p, "construct")
    /\ IF ok
       THEN /\ _jwk_client' = _jwk_client + 1
            /\ procs' = SetProc(p, [procs[p] EXCEPT !.pc = "stamp", !.made = _jwk_client + 1])
            /\ UNCHANGED _jwk_lock
       ELSE /\ procs' = SetProc(p, [procs[p] EXCEPT !.pc = "returned", !.failed = TRUE])
            /\ _jwk_lock' = Unlocked
            /\ UNCHANGED _jwk_client
    /\ UNCHANGED _jwk_cache_time

\* _jwk_cache_time = time.time(); return _jwk_client, leaving the with block
jwk_stamp(p) ==
    /\ AtJwk(p, "stamp")
    /\ _jwk_cache_time' = clock
    /\ procs' = JwkProc(p, "returned", _jwk_client)
    /\ _jwk_lock' = Unlocked
    /\ UNCHANGED _jwk_client

\* --------------------------------------------- auth_keys.py, store/sqlite.py
PREFIX == "cmk-sk-"

\* generate_api_key: the prefix and 32 random bytes, here the number hex
generate_api_key(hex) == [prefix |-> PREFIX, hex |-> hex]

\* hash_key: SHA-256 of the raw key, one digest per raw key
hash_key(raw_key) == <<"sha256", raw_key.prefix, raw_key.hex>>

\* the rows of api_keys with the given hash that are not revoked
LiveKeys(t, key_hash) == {k \in DOMAIN t : t[k].key_hash = key_hash /\ ~t[k].revoked}

\* insert_api_key: [table, ok]; id is the primary key and key_hash is unique,
\* so a second row with either raises
insert_api_key(t, key_id, user_id, key_hash, now) ==
    IF key_id \in DOMAIN t \/ \E k \in DOMAIN t : t[k].key_hash = key_hash
    THEN [table |-> t, ok |-> FALSE]
    ELSE [table |-> Upsert(t, key_id, [user_id |-> user_id, key_hash |-> key_hash,
                                       created |-> now, last_used |-> -1,
                                       revoked |-> FALSE]),
          ok |-> TRUE]

\* get_api_key_by_hash: [table, row]; a row that is found gets its last_used set
get_api_key_by_hash(t, key_hash, now) ==
    IF LiveKeys(t, key_hash) = {} THEN [table |-> t, row |-> None]
    ELSE LET k == CHOOSE x \in LiveKeys(t, key_hash) : TRUE
         IN [table |-> [t EXCEPT ![k].last_used = now], row |-> k]

\* revoke_api_key without the user_id condition
revoke_api_key_anyone(t, key_id, user_id) ==
    IF key_id \in DOMAIN t
    THEN [table |-> [t EXCEPT ![key_id].revoked = TRUE], ok |-> TRUE]
    ELSE [table |-> t, ok |-> FALSE]

\* revoke_api_key: [table, ok]
revoke_api_key(t, key_id, user_id) ==
    IF key_id \in DOMAIN t /\ t[key_id].user_id = user_id
    THEN [table |-> [t EXCEPT ![key_id].revoked = TRUE], ok |-> TRUE]
    ELSE [table |-> t, ok |-> FALSE]

\* what the key operations leave alone
KeyFrame ==
    UNCHANGED <<disabled, clock, memories, journal, cur, identity, rules, procs,
                _jwk_client, _jwk_cache_time, _jwk_lock, teams, team_members, counters, dispatch>>

\* create_api_key; key_id is the uuid4 and hex the token the call draws
create_api_key(user_id, key_id, hex) ==
    LET raw == generate_api_key(hex)
        r == insert_api_key(api_keys, key_id, user_id, hash_key(raw), clock)
    IN /\ cur.pc = "idle"
       /\ api_keys' = r.table
       /\ last' = [Blank EXCEPT !.op = "create_key", !.user_id = user_id, !.key_id = key_id,
                       !.key_hash = hash_key(raw), !.now = clock,
                       !.status = IF r.ok THEN "created" ELSE "raised"]
       /\ KeyFrame

\* validate_api_key: the owner of the key, or None
validate_api_key(raw_key) ==
    LET r == get_api_key_by_hash(api_keys, hash_key(raw_key), clock)
        inp == [Blank EXCEPT !.op = "validate_key", !.key_hash = hash_key(raw_key),
                   !.now = clock]
    IN /\ cur.pc = "idle"
       /\ IF raw_key.prefix # PREFIX
          THEN /\ UNCHANGED api_keys
               /\ last' = [inp EXCEPT !.status = "None"]
          ELSE /\ api_keys' = r.table
               /\ last' = IF r.row = None THEN [inp EXCEPT !.status = "None"]
                          ELSE [inp EXCEPT !.status = "user", !.key_id = r.row,
                                           !.user_id = api_keys[r.row].user_id]
       /\ KeyFrame

\* revoke_key, behind DELETE /keys/{key_id}
revoke_key(key_id, user_id) ==
    LET r == revoke_api_key(api_keys, key_id, user_id)
    IN /\ cur.pc = "idle"
       /\ api_keys' = r.table
       /\ last' = [Blank EXCEPT !.op = "revoke_key", !.user_id = user_id, !.key_id = key_id,
                       !.now = clock, !.status = IF r.ok THEN "True" ELSE "False"]
       /\ KeyFrame

\* ------------------------------------ teams: store/sqlite.py, app.py, cli.py
\* the primary key of team_members
Member(team_id, user_id) == <<team_id, user_id>>

\* create_team: the team row and its creator as owner; id is the primary key
\* of teams, so a second insert of the same id raises
create_team(ts, tm, team_id, created_by, now) ==
    IF team_id \in DOMAIN ts THEN [teams |-> ts, members |-> tm, ok |-> FALSE]
    ELSE [teams |-> Upsert(ts, team_id, [id |-> team_id, created_by |-> created_by,
                                         created |-> now]),
          members |-> Upsert(tm, Member(team_id, created_by),
                             [team_id |-> team_id, user_id |-> created_by,
                              role |-> "owner", joined |-> now]),
          ok |-> TRUE]

\* add_team_member: INSERT OR REPLACE
add_team_member(tm, team_id, user_id, role, now) ==
    Upsert(tm, Member(team_id, user_id),
           [team_id |-> team_id, user_id |-> user_id, role |-> role, joined |-> now])

\* remove_team_member and its return value
remove_team_member(tm, team_id, user_id) ==
    [members |-> Without(tm, {Member(team_id, user_id)}),
     ok |-> Member(team_id, user_id) \in DOMAIN tm]

is_team_member(tm, team_id, user_id) == Member(team_id, user_id) \in DOMAIN tm

get_member_role(tm, team_id, user_id) ==
    IF Member(team_id, user_id) \in DOMAIN tm THEN tm[Member(team_id, user_id)].role
    ELSE None

\* delete_team: the members, then the team
delete_team(ts, tm, team_id) ==
    [teams |-> Without(ts, {team_id}),
     members |-> Without(tm, {k \in DOMAIN tm : tm[k].team_id = team_id}),
     ok |-> team_id \in DOMAIN ts]

\* _require_team_role passes
HasTeamRole(tm, team_id, user_id, roles) == get_member_role(tm, team_id, user_id) \in roles

TeamFrame ==
    UNCHANGED <<disabled, clock, memories, journal, cur, identity, rules, procs,
                _jwk_client, _jwk_cache_time, _jwk_lock, api_keys, counters, dispatch>>

\* the record of a team operation by uid
TeamOp(op, team_id, uid, status) ==
    [Blank EXCEPT !.op = op, !.user_id = uid, !.team_id = team_id, !.now = clock,
                  !.role = get_member_role(team_members, team_id, uid),
                  !.status = status]

\* POST /teams and cmk team create
api_create_team(team_id, uid) ==
    LET r == create_team(teams, team_members, team_id, uid, clock)
    IN /\ teams' = r.teams
       /\ team_members' = r.members
       /\ last' = TeamOp("create_team", team_id, uid, IF r.ok THEN "created" ELSE "raised")
       /\ TeamFrame

\* DELETE /teams/{team_id}
api_delete_team(team_id, uid) ==
    LET r == delete_team(teams, team_members, team_id)
        allowed == HasTeamRole(team_members, team_id, uid, {"owner"})
    IN /\ teams' = IF allowed THEN r.teams ELSE teams
       /\ team_members' = IF allowed THEN r.members ELSE team_members
       /\ last' = TeamOp("delete_team", team_id, uid,
                         IF ~allowed THEN "403" ELSE IF r.ok THEN "deleted" ELSE "404")
       /\ TeamFrame

\* POST /teams/{team_id}/members: role is admin or member
add_member(team_id, uid, user_id, role) ==
    LET allowed == HasTeamRole(team_members, team_id, uid, {"owner", "admin"})
    IN /\ team_members' = IF allowed
                          THEN add_team_member(team_members, team_id, user_id, role, clock)
                          ELSE team_members
       /\ last' = TeamOp("add_member", team_id, uid, IF allowed THEN "added" ELSE "403")
       /\ UNCHANGED teams
       /\ TeamFrame

\* DELETE /teams/{team_id}/members/{member_id}
remove_member(team_id, uid, member_id) ==
    LET allowed == member_id = uid
                   \/ HasTeamRole(team_members, team_id, uid, {"owner", "admin"})
        r == remove_team_member(team_members, team_id, member_id)
    IN /\ team_members' = IF allowed THEN r.members ELSE team_members
       /\ last' = TeamOp("remove_member", team_id, uid,
                         IF ~allowed THEN "403" ELSE IF r.ok THEN "removed" ELSE "404")
       /\ UNCHANGED teams
       /\ TeamFrame

\* cmk team join
team_join(team_id, uid) ==
    LET joins == team_id \in DOMAIN teams /\ ~is_team_member(team_members, team_id, uid)
    IN /\ uid # "local"
       /\ team_members' = IF joins
                          THEN add_team_member(team_members, team_id, uid, "member", clock)
                          ELSE team_members
       /\ last' = TeamOp("team_join", team_id, uid,
                         IF team_id \notin DOMAIN teams THEN "not found"
                         ELSE IF joins THEN "joined" ELSE "already a member")
       /\ UNCHANGED teams
       /\ TeamFrame

\* cmk team leave
team_leave(tid, uid) ==
    LET owner == get_member_role(team_members, tid, uid) = "owner"
    IN /\ team_members' = IF owner THEN team_members
                          ELSE remove_team_member(team_members, tid, uid).members
       /\ last' = TeamOp("team_leave", tid, uid, IF owner THEN "owner" ELSE "left")
       /\ UNCHANGED teams
       /\ TeamFrame

\* ------------------------------------------- calls from several processes
\* touch_memory, the correction downgrade and update_memory as their
\* store calls, for callers in different processes on the same collection
\* process p is between two store calls of one operation
Busy(p) == p \in DOMAIN procs /\ procs[p].pc \in {"write", "upsert"}

\* how many calls of one kind process p has completed
Tally(p, f) == IF p \in DOMAIN procs /\ f \in DOMAIN procs[p] THEN procs[p][f] ELSE 0

\* a call of process p on memory id: pt is the point its scroll returned
Call(p, op, id, user_id, kwargs) ==
    [op |-> op, id |-> id, user_id |-> user_id, kwargs |-> kwargs,
     pt |-> IF disabled \/ ~HasPoint(memories, id, user_id) THEN NoMemory
            ELSE memories[id],
     pc |-> IF disabled \/ ~HasPoint(memories, id, user_id) THEN "done" ELSE "write",
     touches |-> Tally(p, "touches"), halvings |-> Tally(p, "halvings"),
     calls |-> Tally(p, "calls")]

\* process p's call returns
Done(p, f) ==
    SetProc(p, [procs[p] EXCEPT !.pc = "done", ![f] = @ + 1, !.calls = @ + 1])

\* the point p wrote to is still stored
Stored(p) == procs[p].id \in DOMAIN memories

\* touch_memory: the scroll
touch_memory_scroll(p, id, user_id) ==
    /\ ~Busy(p)
    /\ procs' = SetProc(p, Call(p, "touch_memory", id, user_id, <<>>))
    /\ UNCHANGED memories

\* touch_memory: set_payload of the time and of the count read plus one
touch_memory_set_payload(p) ==
    /\ Busy(p) /\ procs[p].op = "touch_memory"
    /\ memories' = IF Stored(p)
                   THEN [memories EXCEPT ![procs[p].id] =
                            [@ EXCEPT !.last_accessed = clock,
                                      !.access_count = procs[p].pt.access_count + 1]]
                   ELSE memories
    /\ procs' = Done(p, "touches")

\* do_remember step 5: old = get_memory(sid)
correction_get_memory(p, sid, user_id) ==
    /\ ~Busy(p)
    /\ procs' = SetProc(p, Call(p, "correction", sid, user_id, <<>>))
    /\ UNCHANGED memories

\* do_remember step 5: update_confidence(sid, old.confidence * 0.5)
correction_update_confidence(p) ==
    /\ Busy(p) /\ procs[p].op = "correction"
    /\ memories' = update_confidence(memories, procs[p].id,
                                     Half(procs[p].pt.confidence), procs[p].user_id)
    /\ procs' = Done(p, "halvings")

\* update_memory: the scroll
update_memory_scroll(p, id, user_id, kwargs) ==
    /\ ~Busy(p)
    /\ procs' = SetProc(p, Call(p, "update_memory", id, user_id, kwargs))
    /\ UNCHANGED memories

\* payload_update: the caller's fields among content, gate, person, project
payload_update(kwargs) ==
    [f \in UpdatableFields \cap DOMAIN kwargs |-> kwargs[f]]

\* payload with the fields of update written over it
Merged(payload, update) ==
    [f \in DOMAIN payload |-> IF f \in DOMAIN update THEN update[f] ELSE payload[f]]

\* update_memory: set_payload(payload_update), when there is one
update_memory_set_payload(p) ==
    /\ Busy(p) /\ procs[p].op = "update_memory" /\ procs[p].pc = "write"
    /\ memories' = IF Stored(p) /\ DOMAIN payload_update(procs[p].kwargs) # {}
                   THEN [memories EXCEPT ![procs[p].id] =
                            Merged(@, payload_update(procs[p].kwargs))]
                   ELSE memories
    /\ procs' = IF "content" \in DOMAIN procs[p].kwargs
                THEN SetProc(p, [procs[p] EXCEPT !.pc = "upsert"])
                ELSE Done(p, "calls")

\* update_memory: the upsert of the re-embedded point with
\* {**pt.payload, **payload_update}
update_memory_upsert(p) ==
    /\ Busy(p) /\ procs[p].op = "update_memory" /\ procs[p].pc = "upsert"
    /\ memories' = Upsert(memories, procs[p].id,
                          Merged(procs[p].pt, payload_update(procs[p].kwargs)))
    /\ procs' = Done(p, "calls")

\* ---------------------------------------------------------------- server.py
_REFLECT_EVERY == 15

\* the threshold named in the auto-checkpoint notice
CHECKPOINT_EVERY == 8

\* no call of _dispatch in progress.  result, reflected and notice describe
\* the last remember_this call that returned; saves and calls count the
\* remember_this calls since the save counter was last reset (those in which
\* do_remember returned, and all of them), at_save and at_call are the two
\* counts as they stood when that call was counted, raised counts the calls
\* in which do_remember raised
Returned ==
    [pc |-> "returned", result |-> None, reflected |-> "no", notice |-> FALSE,
     saves |-> 0, calls |-> 0, at_save |-> 0, at_call |-> 0, raised |-> 0]

\* everything but the store, the counters and the call of _dispatch
DispatchFrame ==
    UNCHANGED <<disabled, clock, cur, identity, rules, procs, _jwk_client,
                _jwk_cache_time, _jwk_lock, api_keys, teams, team_members>>

\* a threshold that is passed only by the call after the 15th
reflect_due_late(c) == c.save > _REFLECT_EVERY

\* if counters["save"] >= _REFLECT_EVERY
reflect_due(c) == c.save >= _REFLECT_EVERY

\* if counters["checkpoint"] >= CHECKPOINT_EVERY
checkpoint_due(c) == c.checkpoint >= CHECKPOINT_EVERY

\* result = await do_remember(...)
dispatch_remember(user_id, content, gate_str, visibility, team_id, r, ranked) ==
    /\ dispatch.pc = "returned" /\ last.op # "remember"
    /\ do_remember(user_id, content, gate_str, None, None, visibility, team_id, r,
                   ranked, {}, "nokey")

\* do_remember raises: call_tool answers the error text, no counter moves
dispatch_raise(user_id) ==
    /\ dispatch.pc = "returned" /\ last.op # "remember"
    /\ dispatch.raised < MaxRaise
    /\ dispatch' = [dispatch EXCEPT !.result = "Error", !.reflected = "no",
                                    !.notice = FALSE, !.calls = @ + 1,
                                    !.at_save = dispatch.saves,
                                    !.at_call = dispatch.calls + 1,
                                    !.raised = @ + 1]
    /\ last' = [Blank EXCEPT !.op = "remember_this", !.user_id = user_id,
                             !.now = clock, !.status = "Error"]
    /\ UNCHANGED <<memories, journal, counters>>
    /\ DispatchFrame

\* counters["save"] += 1; counters["checkpoint"] += 1
dispatch_count ==
    /\ dispatch.pc = "returned" /\ last.op = "remember"
    /\ counters' = [save |-> counters.save + 1, checkpoint |-> counters.checkpoint + 1]
    /\ dispatch' = [dispatch EXCEPT !.pc = "counted", !.result = last.status,
                                    !.reflected = "no", !.notice = FALSE,
                                    !.saves = @ + 1, !.calls = @ + 1,
                                    !.at_save = dispatch.saves + 1,
                                    !.at_call = dispatch.calls + 1]
    /\ last' = [last EXCEPT !.op = "remember_this"]
    /\ UNCHANGED <<memories, journal>>
    /\ DispatchFrame

\* counters["save"] = 0
dispatch_reset ==
    /\ dispatch.pc = "counted" /\ reflect_due(counters)
    /\ counters' = [counters EXCEPT !.save = 0]
    /\ dispatch' = [dispatch EXCEPT !.pc = "reflect", !.saves = 0, !.calls = 0]
    /\ UNCHANGED <<memories, journal, last>>
    /\ DispatchFrame

\* reflect_result = await do_reflect(store, user_id=user_id), which may raise
dispatch_reflect(user_id, has_key, raises) ==
    /\ dispatch.pc = "reflect" /\ last.op # "reflect"
    /\ IF raises
       THEN /\ last' = [Blank EXCEPT !.op = "reflect", !.user_id = user_id,
                                     !.now = clock, !.status = "raised"]
            /\ UNCHANGED <<memories, journal, counters, dispatch>>
            /\ DispatchFrame
       ELSE do_reflect(user_id, has_key, {})

\* the auto-checkpoint notice and return result
dispatch_return ==
    /\ \/ dispatch.pc = "counted" /\ ~reflect_due(counters)
       \/ dispatch.pc = "reflect" /\ last.op = "reflect"
    /\ counters' = IF checkpoint_due(counters)
                   THEN [counters EXCEPT !.checkpoint = 0] ELSE counters
    /\ dispatch' = [dispatch EXCEPT
                       !.pc = "returned",
                       !.reflected = IF dispatch.pc # "reflect" THEN "no"
                                     ELSE IF last.status = "raised" THEN "raised"
                                     ELSE "ok",
                       !.notice = checkpoint_due(counters)]
    /\ last' = [Blank EXCEPT !.op = "remember_this", !.now = clock,
                             !.status = dispatch.result,
                             !.warning = IF checkpoint_due(counters)
                                         THEN {"auto-checkpoint"} ELSE {}]
    /\ UNCHANGED <<memories, journal>>
    /\ DispatchFrame

\* ------------------------------------------------------------ specification
\* no identity card, no rule, no call in flight, the JWKS cache never filled
InitOthers ==
    /\ identity = <<>>
    /\ rules = <<>>
    /\ procs = <<>>
    /\ _jwk_client = NoClient
    /\ _jwk_cache_time = 0
    /\ _jwk_lock = Unlocked
    /\ api_keys = <<>>
    /\ teams = <<>>
    /\ team_members = <<>>
    /\ counters = [save |-> 0, checkpoint |-> 0]
    /\ dispatch = Returned

Init ==
    /\ InitOthers
    /\ disabled \in BOOLEAN
    /\ clock = 0
    /\ steps = 0
    /\ memories = <<>>
    /\ journal = <<>>
    /\ last = Blank
    /\ cur = Idle

\* one more operation, at most max of them
Step(max) == steps < max /\ steps' = steps + 1

\* the wall clock advances
Tick ==
    /\ clock < MaxClock
    /\ clock' = clock + 1
    /\ UNCHANGED <<others, disabled, steps, memories, journal, last, cur>>

\* ---- Spec: two users and a team writing and recalling
Writers ==
    {[user_id |-> "u1", visibility |-> "private", team_id |-> "t1"],
     [user_id |-> "u1", visibility |-> "team", team_id |-> "t1"],
     [user_id |-> "u2", visibility |-> "private", team_id |-> None],
     [user_id |-> "u2", visibility |-> "team", team_id |-> "t2"]}

Remember ==
    \E w \in Writers, c \in {<<"a">>, <<"b">>}, r \in {0, 1} :
    \E ranked \in TopRankings(Indexed(MemId(clock, r))) :
        /\ Step(MaxSteps)
        /\ do_remember(w.user_id, c, "correction", None, None, w.visibility, w.team_id,
                       r, ranked, {}, "nokey")

Recall ==
    \E t \in {"t1", None}, f \in {{}, {"search"}} :
        /\ Step(MaxSteps)
        /\ do_recall(<<"b">>, "u1", t, f)

Next == Remember \/ Recall

Spec == Init /\ [][Next]_vars

\* ---- SpecWrite: one user writing; every argument of Remember varied
\* a private epistemic memory with no person and no project
BaseWrite ==
    [content |-> <<"a">>, gate_str |-> "epistemic", person |-> None, project |-> None,
     visibility |-> "private", team_id |-> None, r |-> 0]

GateStrings ==
    Gate \cup {"BEHAVIORAL", "Correction", "bogus", ""}

\* the base write and every write that differs from it in one argument
WriteInputs ==
    {BaseWrite}
    \cup {[BaseWrite EXCEPT !.content = c] : c \in {<<>>, <<"a", "b">>}}
    \cup {[BaseWrite EXCEPT !.gate_str = g] : g \in GateStrings}
    \cup {[BaseWrite EXCEPT !.person = x] : x \in {"", "p1"}}
    \cup {[BaseWrite EXCEPT !.project = x] : x \in {"", "j1"}}
    \cup {[BaseWrite EXCEPT !.visibility = "team", !.team_id = t] : t \in {None, "", "t1"}}
    \cup {[BaseWrite EXCEPT !.r = 1]}

RememberWrite ==
    \E w \in WriteInputs :
    \E ranked \in TopRankings(Indexed(MemId(clock, w.r))) :
        /\ Step(MaxWrites)
        /\ do_remember("u1", w.content, w.gate_str, w.person, w.project, w.visibility,
                       w.team_id, w.r, ranked, {}, "nokey")

NextWrite == RememberWrite \/ Tick

SpecWrite == Init /\ [][NextWrite]_vars

\* ---- SpecEffects: one user; the side effects of Remember and their failures
BaseEffect ==
    [content |-> <<"a">>, gate_str |-> "correction", person |-> "p1", r |-> 0,
     fails |-> {}, cls |-> "nokey"]

\* the base write and every write that differs from it in one argument or in
\* what the environment does to its side-effect steps
EffectInputs ==
    {BaseEffect}
    \cup {[BaseEffect EXCEPT !.content = <<"b">>]}
    \cup {[BaseEffect EXCEPT !.gate_str = "epistemic"]}
    \cup {[BaseEffect EXCEPT !.person = None]}
    \cup {[BaseEffect EXCEPT !.r = 1]}
    \cup {[BaseEffect EXCEPT !.fails = {f}] : f \in FailPoints}
    \cup {[BaseEffect EXCEPT !.cls = c] : c \in ClassOutcomes}
    \cup {[BaseEffect EXCEPT !.fails = FailPoints, !.cls = "raise"]}

RememberEffect ==
    \E w \in EffectInputs :
    \E ranked \in Rankings(Indexed(MemId(clock, w.r))) :
        /\ Step(MaxEffects)
        /\ do_remember("u1", w.content, w.gate_str, w.person, None, "private", None,
                       w.r, ranked, w.fails, w.cls)

NextEffects == RememberEffect

SpecEffects == Init /\ [][NextEffects]_vars

\* ---- SpecSteps: one user; each Remember taken one store write at a time
StepInputs ==
    {[content |-> c, gate_str |-> g, visibility |-> v, r |-> r] :
        c \in {<<"a">>, <<"b">>}, g \in {"correction", "epistemic", "bogus"},
        v \in {"private", "team"}, r \in {0, 1}}

StartRemember ==
    \E w \in StepInputs :
        /\ Step(MaxCalls)
        /\ remember_journal("u1", w.content, w.gate_str, "p1", None, w.visibility, None, w.r)

InsertMemory == remember_memory /\ UNCHANGED steps

RunSideEffects ==
    \E ranked \in TopRankings(Indexed(cur.mem_id)), fails \in {{}, FailPoints} :
        /\ remember_effects(ranked, fails, "nokey")
        /\ UNCHANGED steps

NextSteps == StartRemember \/ InsertMemory \/ RunSideEffects \/ Tick

SpecSteps == Init /\ [][NextSteps]_vars

\* ---- SpecChain: one user writing memories with and without person and
\* project, seconds and days apart
ChainInputs ==
    {[person |-> x, project |-> y, r |-> 0, fails |-> {}] :
        x \in {None, "p1"}, y \in {None, "j1"}}
    \cup {[person |-> "p1", project |-> None, r |-> 1, fails |-> {}],
          [person |-> "p1", project |-> None, r |-> 0, fails |-> {"follows"}]}

RememberChain ==
    \E w \in ChainInputs :
    \E ranked \in TopRankings(Indexed(MemId(clock, w.r))) :
        /\ Step(MaxChain)
        /\ do_remember("u1", <<"a">>, "epistemic", w.person, w.project, "private", None,
                       w.r, ranked, w.fails, "nokey")

\* 24 hours pass
Day ==
    /\ clock <= MaxClock + DayTicks
    /\ clock' = clock + DayTicks
    /\ UNCHANGED <<others, disabled, steps, memories, journal, last, cur>>

NextChain == RememberChain \/ Day

SpecChain == Init /\ [][NextChain]_vars

\* ---- SpecGraph: the edge operations of the store on three stored memories
\* of one user and one id that is not stored
StoredIds == {MemId(0, r) : r \in 0..2}

NodeIds == StoredIds \cup {MemId(0, 3)}

RECURSIVE WriteAll(_, _)
\* the memory collection after a Remember for every id of the set
WriteAll(ids, m) ==
    IF ids = {} THEN m
    ELSE LET id == CHOOSE x \in ids : TRUE
         IN WriteAll(ids \ {id},
                     insert_memory(m, Memory(id, 0, "epistemic", None, None, <<"a">>),
                                   "u1", None, None, None))

InitGraph ==
    /\ InitOthers
    /\ disabled \in BOOLEAN
    /\ clock = 0
    /\ steps = 0
    /\ memories = WriteAll(StoredIds, <<>>)
    /\ journal = insert_journal(<<>>, JournalEntry(0, "epistemic", <<"a">>, None, None), "u1")
    /\ last = Blank
    /\ cur = Idle

\* every FOLLOWS edge between the ids, and one CONTRADICTS edge
EdgeInputs ==
    {[from |-> a, to |-> b, relation |-> "FOLLOWS"] : a, b \in NodeIds}
    \cup {[from |-> MemId(0, 0), to |-> MemId(0, 1), relation |-> "CONTRADICTS"]}

AddEdge ==
    \E e \in EdgeInputs :
        /\ Step(MaxEdges)
        /\ memories' = add_edge(memories, e.from, e.to, e.relation, "u1")
        /\ last' = [Blank EXCEPT !.op = "add_edge", !.user_id = "u1", !.id = e.from,
                        !.target = e.to, !.relation = e.relation,
                        !.status = IF /\ last.op = "add_edge" /\ last.id = e.from
                                      /\ last.target = e.to /\ last.relation = e.relation
                                   THEN "repeated" ELSE "first"]
        /\ UNCHANGED <<others, disabled, clock, journal, cur>>

FindRelated ==
    \E start \in NodeIds, depth \in 0..(GraphDepth + 1) :
        /\ last' = [Blank EXCEPT !.op = "find_related", !.user_id = "u1", !.id = start,
                        !.depth = depth,
                        !.results = find_related(memories, start, depth, "u1")]
        /\ UNCHANGED <<others, disabled, clock, steps, memories, journal, cur>>

NextGraph == AddEdge \/ FindRelated

SpecGraph == InitGraph /\ [][NextGraph]_vars

\* ---- SpecAccess: one user writing a chain of memories and recalling, with
\* each stage of Recall failing or not
RememberAccess ==
    \E c \in {<<"a">>, <<"b">>}, r \in {0, 1} :
        /\ Step(MaxAccess)
        /\ do_remember("u1", c, "epistemic", "p1", None, "private", None, r,
                       CHOOSE ranked \in TopRankings(Indexed(MemId(clock, r))) : TRUE,
                       {}, "nokey")

RecallAccess ==
    \E f \in {{}} \cup {{x} : x \in RecallFailPoints} :
        /\ Step(MaxAccess)
        /\ do_recall(<<"b">>, "u1", None, f)

NextAccess == RememberAccess \/ RecallAccess \/ Tick

SpecAccess == Init /\ [][NextAccess]_vars

\* ---- SpecLife: one user writing corrections, recalling, editing and pinning
\* an id no memory is stored under
MissingId == MemId(0, 3)

RememberLife ==
    \E c \in {<<"a">>, <<"b">>} :
    \E ranked \in TopRankings(Indexed(MemId(clock, 0))) :
        /\ Step(MaxLife)
        /\ do_remember("u1", c, "correction", "p1", None, "private", None, 0,
                       ranked, {}, "nokey")

RecallLife ==
    \E f \in {{}, {"search"}} :
        /\ Step(MaxLife)
        /\ do_recall(<<"b">>, "u1", None, f)

\* the bodies of PATCH /memories/{id} with the unset fields left out
UpdateInputs ==
    {<<>>, [content |-> <<"b">>], [gate |-> "behavioral"],
     [person |-> "p2", project |-> "j1"]}

UpdateMemory ==
    \E id \in DOMAIN memories \cup {MissingId}, updates \in UpdateInputs :
        /\ Step(MaxLife)
        /\ api_update_memory(id, "u1", updates)

PinMemory ==
    \E id \in DOMAIN memories \cup {MissingId}, pinned \in BOOLEAN :
        /\ Step(MaxLife)
        /\ api_pin_memory(id, "u1", pinned)

NextLife == RememberLife \/ RecallLife \/ UpdateMemory \/ PinMemory \/ Tick

SpecLife == Init /\ [][NextLife]_vars

\* ---- SpecForget: one user writing a chain of memories and forgetting them
RememberForget ==
    \E c \in {<<"a">>, <<"b">>}, g \in {"epistemic", "correction"}, r \in {0, 1} :
    \E ranked \in TopRankings(Indexed(MemId(clock, r))) :
        /\ Step(MaxForget)
        /\ do_remember("u1", c, g, "p1", None, "private", None, r, ranked, {}, "nokey")

Forget ==
    \E id \in DOMAIN memories \cup {MissingId} :
        /\ Step(MaxForget)
        /\ do_forget(id, "u1", None, None)

NextForget == RememberForget \/ Forget

SpecForget == Init /\ [][NextForget]_vars

\* ---- SpecRace: two callers adding edges to the same stored memory, their
\* store calls interleaved
Callers == {1, 2}

RaceInputs ==
    {[to |-> b, relation |-> r] : b \in {MemId(0, 1), MemId(0, 2)},
                                  r \in {"FOLLOWS", "CONTRADICTS"}}

StartAddEdge ==
    \E p \in Callers, e \in RaceInputs :
        /\ Step(MaxRace)
        /\ add_edge_scroll(p, MemId(0, 0), e.to, e.relation, "u1")
        /\ UNCHANGED <<disabled, clock, journal, last, cur, identity, rules,
                       _jwk_client, _jwk_cache_time, _jwk_lock, auth_db>>

FinishAddEdge ==
    \E p \in Callers :
        /\ Step(MaxRace)
        /\ add_edge_set_payload(p)
        /\ UNCHANGED <<disabled, clock, journal, last, cur, identity, rules,
                       _jwk_client, _jwk_cache_time, _jwk_lock, auth_db>>

NextRace == StartAddEdge \/ FinishAddEdge

SpecRace == InitGraph /\ [][NextRace]_vars

\* ---- SpecReflect: local memories written, pinned, aged, consolidated by
\* Reflect and claimed by a logged-in user
ReflectInputs ==
    {[content |-> <<"a">>, gate_str |-> "behavioral"],
     [content |-> <<"b">>, gate_str |-> "promissory"]}

RememberReflect ==
    \E w \in ReflectInputs :
        /\ Step(MaxReflect)
        \* timestamps have microsecond resolution: no two writes share one
        /\ \A k \in DOMAIN journal : journal[k].timestamp # clock
        /\ do_remember("local", w.content, w.gate_str, None, None, "private", None, 0,
                       CHOOSE ranked \in TopRankings(Indexed(MemId(clock, 0))) : TRUE,
                       {}, "nokey")

PinReflect ==
    \E id \in DOMAIN memories, pinned \in BOOLEAN :
        /\ Step(MaxReflect)
        /\ api_pin_memory(id, "local", pinned)

\* the days that pass at once
AgeDays == {20, 200}

Age ==
    \E days \in AgeDays :
        /\ clock <= MaxClock + 20 * DayTicks
        /\ clock' = clock + days * DayTicks
        /\ UNCHANGED <<others, disabled, steps, memories, journal, last, cur>>

\* with and without an API key; with a key, each stage failing or none
ReflectRuns ==
    {[has_key |-> FALSE, fails |-> {}], [has_key |-> TRUE, fails |-> {}]}
    \cup {[has_key |-> TRUE, fails |-> {x}] : x \in ReflectFailPoints}

Reflect ==
    \E user_id \in {"local", "u1"}, run \in ReflectRuns :
        /\ Step(MaxReflect)
        /\ do_reflect(user_id, run.has_key, run.fails)

ClaimReflect ==
    /\ Step(MaxReflect)
    /\ claim_local("u1")

NextReflect == RememberReflect \/ PinReflect \/ Age \/ Reflect \/ ClaimReflect

SpecReflect == Init /\ [][NextReflect]_vars

\* ---- SpecMigrate: the local user and a logged-in user writing memories and
\* identity cards; the local data claimed, the cloud data exported
MigrateInputs ==
    {[user_id |-> "local", content |-> <<"a">>], [user_id |-> "u1", content |-> <<"b">>]}

RememberMigrate ==
    \E w \in MigrateInputs :
        /\ Step(MaxMigrate)
        /\ do_remember(w.user_id, w.content, "epistemic", None, None, "private", None, 0,
                       CHOOSE ranked \in TopRankings(Indexed(MemId(clock, 0))) : TRUE,
                       {}, "nokey")

SetIdentity ==
    \E w \in MigrateInputs :
        /\ Step(MaxMigrate)
        /\ api_update_identity(w.user_id, w.content)

Claim ==
    /\ Step(MaxMigrate)
    /\ claim_local("u1")

Export ==
    /\ Step(MaxMigrate)
    /\ export_data("u1")

NextMigrate == RememberMigrate \/ SetIdentity \/ Claim \/ Export \/ Tick

SpecMigrate == Init /\ [][NextMigrate]_vars

\* ---- SpecRules: two tenants creating, updating and deleting rules, and one
\* of them writing a memory
RuleIds == {"r1", "r2"}

RuleTenants == {"local", "u1"}

\* keyword arguments of update_rule: none, allowed ones, ones the store does
\* not accept, and a mix
RuleKwargs ==
    {<<>>,
     [condition |-> "c2"],
     [scope |-> "s2", enforcement |-> "block"],
     [user_id |-> "u1"],
     [condition |-> "c2", rule_id |-> "r2", last_triggered |-> 1]}

RememberRules ==
    /\ Step(MaxRules)
    /\ do_remember("u1", <<"a">>, "epistemic", None, None, "private", None, 0,
                   CHOOSE ranked \in TopRankings(Indexed(MemId(clock, 0))) : TRUE,
                   {}, "nokey")

CreateRule ==
    \E rule_id \in RuleIds, user_id \in RuleTenants :
        /\ Step(MaxRules)
        /\ create_rule(rule_id, user_id, "s1", "c1", "suggest")

UpdateRule ==
    \E rule_id \in RuleIds, user_id \in RuleTenants, kwargs \in RuleKwargs :
        /\ Step(MaxRules)
        /\ store_update_rule(rule_id, user_id, kwargs)

DeleteRule ==
    \E rule_id \in RuleIds, user_id \in RuleTenants :
        /\ Step(MaxRules)
        /\ store_delete_rule(rule_id, user_id)

NextRules == RememberRules \/ CreateRule \/ UpdateRule \/ DeleteRule \/ Tick

SpecRules == Init /\ [][NextRules]_vars

\* ---- SpecJwk: calls of _get_jwk_client by concurrent threads, numbered in
\* the order they start, each line that reads or writes the shared cache a
\* step of its own
JwkCallers == 1..MaxJwk

\* what no step of _get_jwk_client touches
JwkFrame ==
    UNCHANGED <<disabled, clock, memories, journal, last, cur, identity, rules, auth_db>>

GetJwkClient ==
    \E url \in BOOLEAN :
        /\ Step(MaxJwk)
        \* time.time() counts from 1970: the initial _jwk_cache_time of 0 is
        \* more than one lifetime in the past
        /\ clock >= _JWK_CACHE_TTL
        /\ jwk_enter(steps + 1, url)
        /\ JwkFrame

TestClient == \E p \in JwkCallers : jwk_test_client(p) /\ JwkFrame /\ UNCHANGED steps

TestAge == \E p \in JwkCallers : jwk_test_age(p) /\ JwkFrame /\ UNCHANGED steps

FastReturn == \E p \in JwkCallers : jwk_fast_return(p) /\ JwkFrame /\ UNCHANGED steps

Acquire == \E p \in JwkCallers : jwk_acquire(p) /\ JwkFrame /\ UNCHANGED steps

DoubleChecked == \E p \in JwkCallers : jwk_double_check(p) /\ JwkFrame /\ UNCHANGED steps

Construct ==
    \E p \in JwkCallers, ok \in BOOLEAN : jwk_construct(p, ok) /\ JwkFrame /\ UNCHANGED steps

Stamp == \E p \in JwkCallers : jwk_stamp(p) /\ JwkFrame /\ UNCHANGED steps

\* half of the cache lifetime passes
HalfHour ==
    /\ clock < _JWK_CACHE_TTL + MaxHalfHours * (_JWK_CACHE_TTL \div 2)
    /\ clock' = clock + _JWK_CACHE_TTL \div 2
    /\ UNCHANGED <<others, disabled, steps, memories, journal, last, cur>>

NextJwk ==
    \/ GetJwkClient \/ TestClient \/ TestAge \/ FastReturn \/ Acquire
    \/ DoubleChecked \/ Construct \/ Stamp \/ HalfHour

SpecJwk == Init /\ [][NextJwk]_vars

\* ---- SpecKeys: two users creating, revoking and presenting API keys
KeyIds == {"k1", "k2"}

KeyUsers == {"u1", "u2"}

\* the raw keys presented: two that create_api_key can draw and one without
\* the prefix
RawKeys == {generate_api_key(1), generate_api_key(2), [prefix |-> "sk-", hex |-> 1]}

CreateKey ==
    \E user_id \in KeyUsers, key_id \in KeyIds, hex \in {1, 2} :
        /\ Step(MaxKeys)
        /\ create_api_key(user_id, key_id, hex)

ValidateKey ==
    \E raw_key \in RawKeys :
        /\ Step(MaxKeys)
        /\ validate_api_key(raw_key)

RevokeKey ==
    \E key_id \in KeyIds, user_id \in KeyUsers :
        /\ Step(MaxKeys)
        /\ revoke_key(key_id, user_id)

NextKeys == CreateKey \/ ValidateKey \/ RevokeKey \/ Tick

SpecKeys == Init /\ [][NextKeys]_vars

\* ------------------------------------------------------------------ claims
\* a payload is in the scope of the caller (user_id, team_id): it is the
\* caller's own, or it is shared with or stored under the caller's team
InScope(p, user_id, team_id) ==
    \/ p.user_id = user_id
    \/ /\ Truthy(team_id)
       /\ \/ p.user_id = TeamUser(team_id)
          \/ (p.visibility = "team" /\ p.team_id = team_id)

\* C1: every memory a Recall returns, as a direct hit, a text-fallback hit or
\* a graph neighbour, is stored in the scope of the caller's tenant, whatever
\* order the index ranks the points in.
C1_TenantIsolation ==
    last.op = "recall" =>
        \A i \in DOMAIN last.results :
            /\ last.results[i].id \in DOMAIN memories
            /\ InScope(memories[last.results[i].id], last.user_id, last.team_id)

\* a Recall returned something while another tenant holds a memory whose
\* content matches the query
C1_Witness ==
    /\ last.op = "recall"
    /\ last.results # <<>>
    /\ \E id \in DOMAIN memories :
          /\ ~InScope(memories[id], last.user_id, last.team_id)
          /\ TextMatches(memories[id].content, last.content)

\* the step is a Remember that returned its success message
Remembered == steps' # steps /\ last'.op = "remember" /\ last'.status = "remembered"

FreshTime(t) ==
    /\ \A id \in DOMAIN memories : memories[id].created # t
    /\ \A k \in DOMAIN journal : journal[k].timestamp # t

\* C3: a successful Remember on a connected store, at an instant no stored
\* record carries, adds exactly one journal record and exactly one memory
\* record and leaves the content of every earlier memory as it was.
C3_OneRecordEach ==
    [][(Remembered /\ ~disabled /\ FreshTime(clock))
        => /\ Cardinality(DOMAIN journal') = Cardinality(DOMAIN journal) + 1
           /\ Cardinality(DOMAIN memories') = Cardinality(DOMAIN memories) + 1
           /\ \A id \in DOMAIN memories : memories'[id].content = memories[id].content]_vars

\* C5: a Remember whose gate string names none of the five primary gates is
\* rejected as an invalid gate and creates no memory.
C5_PrimaryGatesOnly ==
    (last.op = "remember" /\ Lower(last.gate_str) \notin PrimaryGates) =>
        (last.status = "invalid gate" /\ last.id = NoId)

\* C6: a Remember with empty content is rejected and stores neither a journal
\* record nor a memory record.
C6_EmptyContentRejected ==
    [][(steps' # steps /\ last'.op = "remember" /\ last'.content = <<>>)
        => /\ last'.status \notin {"remembered", "running"}
           /\ journal' = journal
           /\ memories' = memories]_vars

\* C7: a Remember with visibility team and no team id (and a valid gate) ends
\* with the team-configuration error and inserts no memory record.
C7_TeamWithoutTeamId ==
    [][(/\ steps' # steps
        /\ last'.op = "remember"
        /\ last'.visibility = "team"
        /\ ~Truthy(last'.team_id)
        /\ Gate_from_str(last'.gate_str) # None)
        => (last'.status = "no team" /\ memories' = memories)]_vars

\* a team write without a team id was refused on a connected store, after
\* its journal record was written
C7_Witness ==
    /\ ~disabled
    /\ last.op = "remember"
    /\ last.visibility = "team"
    /\ ~Truthy(last.team_id)
    /\ last.status = "no team"
    /\ \E k \in DOMAIN journal : journal[k].timestamp = last.now


\* the journal record and the memory record of the last Remember are stored
LastStored ==
    /\ last.id \in DOMAIN memories
    /\ memories[last.id].user_id = last.user_id
    /\ memories[last.id].content = last.content
    /\ _journal_point_id(last.user_id, last.now, last.content) \in DOMAIN journal

\* the journal record of the running call is stored
CurJournaled(j) ==
    _journal_point_id(cur.inp.user_id, cur.inp.now, cur.inp.content) \in DOMAIN j

\* the memory record of the running call is stored
CurInserted(m) ==
    /\ cur.mem_id \in DOMAIN m
    /\ m[cur.mem_id].content = cur.inp.content
    /\ m[cur.mem_id].created = cur.inp.now

\* C4: within one Remember on a connected store the journal record is stored
\* by the first step, which touches no memory; the memory record is stored
\* by a step that finds the journal record in place; the side effects run in
\* a step that finds both in place; and no memory is written before the
\* journal step.
C4_JournalMemoryEffects ==
    [][~disabled =>
        /\ (cur.pc = "idle" /\ cur'.pc = "journal")
              => (memories' = memories /\ _journal_point_id(cur'.inp.user_id, cur'.inp.now, cur'.inp.content) \in DOMAIN journal')
        /\ (cur.pc = "journal" /\ cur'.pc = "memory")
              => (CurJournaled(journal) /\ journal' = journal /\ CurInserted(memories'))
        /\ (cur.pc = "memory" /\ cur'.pc = "idle")
              => (CurJournaled(journal) /\ CurInserted(memories) /\ journal' = journal)
        /\ memories' # memories => cur.pc \in {"journal", "memory"}]_vars

\* a correction Remember ran all its steps on a connected store and its
\* correction step changed an older memory
C4_Witness ==
    /\ ~disabled
    /\ cur.pc = "idle"
    /\ last.op = "remember"
    /\ last.status = "remembered"
    /\ last.target \in DOMAIN memories
    /\ LastStored

C10_CorrectionScenario ==
    [][(/\ Remembered
        /\ Lower(last'.gate_str) = "correction"
        /\ last'.fails = {}
        /\ Cardinality(DOMAIN memories) = 1
        /\ \A a \in DOMAIN memories : /\ memories[a].confidence = ConfInit
                                      /\ a # last'.id
                                      /\ a \in last'.above)
        => \A a \in DOMAIN memories :
              /\ memories'[a].confidence = Half(ConfInit)
              /\ Edge(a, "CONTRADICTS") \in Range(memories'[last'.id].edges)]_vars

\* the ids a memory's edges of one relation point to
EdgeTargets(m, id, relation) ==
    {m[id].edges[i].to : i \in {k \in DOMAIN m[id].edges : m[id].edges[k].relation = relation}}

\* the user's memories other than `new` that match person and project (each
\* when set) and were created at or after `cutoff`
InContext(m, new, user_id, person, project, cutoff) ==
    {id \in DOMAIN m \ {new} :
        /\ m[id].user_id = user_id
        /\ (Truthy(person) => m[id].person = person)
        /\ (Truthy(project) => m[id].project = project)
        /\ m[id].created >= cutoff}

EdgeCount(m, id, to, relation) ==
    Cardinality({k \in DOMAIN m[id].edges : m[id].edges[k] = Edge(to, relation)})

\* C12: an add_edge(a, b, r) on a stored memory a leaves exactly one edge
\* (b, r) on a, and an add_edge(a, b, r) that directly follows the same call
\* changes nothing in the store.
C12_AddEdgeIdempotent ==
    [][(steps' # steps /\ last'.op = "add_edge")
        => /\ HasPoint(memories', last'.id, last'.user_id)
                => EdgeCount(memories', last'.id, last'.target, last'.relation) = 1
           /\ (/\ last.op = "add_edge" /\ last.id = last'.id
               /\ last.target = last'.target /\ last.relation = last'.relation)
                => memories' = memories]_vars

\* the same add_edge ran twice in a row on a stored memory that already
\* carried another edge
C12_Witness ==
    /\ ~disabled
    /\ last.op = "add_edge"
    /\ last.status = "repeated"
    /\ last.id \in DOMAIN memories
    /\ Len(memories[last.id].edges) = 2
    /\ EdgeCount(memories, last.id, last.target, last.relation) = 1

\* C19: find_related(start, depth) returns each id at most once, never the
\* start id, only memories stored for the user, each at a depth between 1
\* and the depth bound, in non-decreasing depth order, on every edge graph.
C19_FindRelatedBounded ==
    last.op = "find_related" =>
        LET res == last.results
        IN /\ \A i, j \in DOMAIN res : i # j => res[i].id # res[j].id
           /\ \A i \in DOMAIN res :
                 /\ res[i].id # last.id
                 /\ HasPoint(memories, res[i].id, last.user_id)
                 /\ res[i].depth >= 1
                 /\ res[i].depth <= last.depth
           /\ \A i, j \in DOMAIN res : i < j => res[i].depth <= res[j].depth

\* a traversal from a memory that lies on a cycle returned a neighbour at
\* depth 1, which points back to the start, and another at depth 2
C19_Witness ==
    /\ last.op = "find_related"
    /\ last.id \in DOMAIN memories
    /\ Len(last.results) = 2
    /\ last.results[1].depth = 1
    /\ last.results[2].depth = 2
    /\ Edge(last.id, "FOLLOWS") \in Range(memories[last.results[1].id].edges)

\* the results of the last Recall that came from the vector or the text search
DirectResults == SelectSeq(last.results, LAMBDA x : x.kind # "graph")

\* the result x of a Recall by the caller is a stored memory of the caller's scope
ResultStored(x) ==
    /\ x.id \in DOMAIN memories
    /\ InScope(memories[x.id], last.user_id, last.team_id)

\* the result x was touched at or after the start of the Recall
ResultFresh(x) == x.id \in DOMAIN memories /\ memories[x.id].last_accessed >= last.now

C14_RecallCountsOnce ==
    [][(steps' = steps + 1 /\ last'.op = "recall") =>
          \A i \in DOMAIN last'.results :
              last'.results[i].kind # "graph" =>
                  /\ last'.results[i].id \in DOMAIN memories
                  /\ memories'[last'.results[i].id].access_count
                       = memories[last'.results[i].id].access_count + 1]_vars

\* a memory returned as a direct hit by the only Recall since it was written
\* stands at access_count 2
C14_Witness ==
    /\ last.op = "recall"
    /\ steps = 2
    /\ \E i \in DOMAIN DirectResults : memories[DirectResults[i].id].access_count = 2

\* C15: every stored memory has last_accessed >= created and access_count >= 1,
\* whatever sequence of Remember, Recall, UpdateMemory, Pin, Unpin and
\* correction writes produced the store.
C15_AccessBookkeeping ==
    \A id \in DOMAIN memories :
        /\ memories[id].last_accessed >= memories[id].created
        /\ memories[id].access_count >= 1

\* a memory that was recalled after the clock moved has just been edited or
\* pinned
C15_Witness ==
    /\ last.op \in {"update", "pin"}
    /\ last.status \in {"updated", "pinned", "unpinned"}
    /\ last.id \in DOMAIN memories
    /\ memories[last.id].access_count = 2
    /\ memories[last.id].last_accessed > memories[last.id].created

\* C16: Recall never raises: a failure of the hybrid search, of the text
\* fallback or of the graph expansion is absorbed, and the call returns its
\* results or the "no memories found" sentinel.
C16_RecallNeverRaises ==
    last.op = "recall" => last.status \in {"found", "none"}

\* the ids of the first two direct results of the last Recall, in result order
FirstDirect ==
    [i \in 1..Min(GraphSeeds, Len(DirectResults)) |-> DirectResults[i].id]

\* C18: the graph expansion of a Recall runs only when the searches gave fewer
\* than 3 results, and its traversals start from the first two direct results,
\* in result order.
C18_GraphFromFirstTwo ==
    (last.op = "recall" /\ last.status # "raised") =>
        /\ last.graph <=> Len(DirectResults) < GraphThreshold
        /\ last.graph => last.seeds = FirstDirect

\* C17: a memory written with visibility team and team id T can be fetched by
\* id under its creator's user scope and under the team scope of T, so every
\* caller with team context T materializes it.
C17_TeamMemoryRetrievable ==
    \A id \in DOMAIN memories :
        (memories[id].visibility = "team" /\ Truthy(memories[id].team_id)) =>
            /\ get_memory(memories, id, memories[id].created_by).id = id
            /\ get_memory(memories, id, TeamUser(memories[id].team_id)).id = id
            /\ \A user_id \in {"u1", "u2"} :
                 _get_memory(memories, id, user_id, memories[id].team_id).id = id

\* C20: every edge stored on a memory points to a memory that exists in the
\* same tenant scope, whatever sequence of Remember and Forget produced the
\* store.
C20_NoDanglingEdges ==
    \A id \in DOMAIN memories :
        \A i \in DOMAIN memories[id].edges :
            LET to == memories[id].edges[i].to
            IN /\ to \in DOMAIN memories
               /\ memories[to].user_id = memories[id].user_id

\* C21: the decay_class of every stored memory is the class the gate-to-decay
\* mapping gives to the memory's current gate, whatever sequence of Remember
\* and UpdateMemory produced the store.
C21_DecayFollowsGate ==
    \A id \in DOMAIN memories :
        memories[id].decay_class = DecayClass_from_gate(memories[id].gate)

\* the calls of p and q both wrote, to the same source, different edges, and
\* each read the source before the other wrote it
Overlapped(p, q) ==
    /\ p \in DOMAIN procs /\ q \in DOMAIN procs /\ p # q
    /\ procs[p].pc = "done" /\ procs[q].pc = "done"
    /\ procs[p].op = "add_edge" /\ procs[q].op = "add_edge"
    /\ procs[p].from_id = procs[q].from_id
    /\ Edge(procs[p].to_id, procs[p].relation) # Edge(procs[q].to_id, procs[q].relation)
    /\ procs[p].read_at < procs[q].wrote_at
    /\ procs[q].read_at < procs[p].wrote_at

\* C22: when two AddEdge calls with different (to_id, relation) run
\* concurrently on the same source memory, the stored edge sequence is the
\* one the last writer wrote: the list it had read plus its own edge; so it
\* holds at least one of the two new edges.
C22_LastWriterWins ==
    \A p, q \in Callers :
        (Overlapped(p, q) /\ procs[q].wrote_at < procs[p].wrote_at) =>
            /\ memories[procs[p].from_id].edges
                 = Append(procs[p].edges, Edge(procs[p].to_id, procs[p].relation))
            /\ Edge(procs[p].to_id, procs[p].relation)
                 \in Range(memories[procs[p].from_id].edges)

\* two overlapping calls finished and the edge of the first writer is gone
C22_Witness ==
    \E p, q \in Callers :
        /\ Overlapped(p, q)
        /\ procs[q].wrote_at < procs[p].wrote_at
        /\ Edge(procs[q].to_id, procs[q].relation)
             \notin Range(memories[procs[p].from_id].edges)

\* C23: a memory that is pinned when Reflect scans it is not deleted by
\* Reflect, whatever its decay class, age and access count.
C23_PinnedSurvivesReflect ==
    [][(steps' = steps + 1 /\ last'.op = "reflect") =>
          \A id \in DOMAIN memories :
              memories[id].pinned =>
                  id \in DOMAIN memories' /\ memories'[id] = memories[id]]_vars

\* a Reflect deleted a fading memory and left a pinned fading memory stored
C23_Witness ==
    /\ last.op = "reflect"
    /\ last.count >= 1
    /\ \E id \in DOMAIN memories :
         /\ memories[id].pinned
         /\ memories[id].user_id = last.user_id
         /\ is_fading(_memory_from_payload(memories[id]), clock)

\* the journal of the next state holds a digest record of the entry's tenant
\* for the ISO week of the entry k that was removed
Digested(k) ==
    /\ last'.op = "reflect"
    /\ journal[k].date >= 0
    /\ \E d \in DOMAIN journal' :
         /\ journal'[d].gate = "digest"
         /\ journal'[d].user_id = journal[k].user_id
         /\ journal'[d].date = WeekOf(journal[k].date)

C25_MigrateMovesCounts ==
    [][(steps' # steps /\ last'.op = "migrate" /\ last'.status = "migrated")
        => /\ count_memories(memories', last'.user_id)
                = count_memories(memories, last'.user_id)
                  + count_memories(memories, last'.from_id)
           /\ count_memories(memories', last'.from_id) = 0]_vars

\* a claim has moved a local memory to a user who had a memory of their own
C25_Witness ==
    /\ last.op = "migrate" /\ last.status = "migrated" /\ last.user_id = "u1"
    /\ count_memories(memories, "local") = 0
    /\ \E x, y \in DOMAIN memories :
          /\ memories[x].user_id = "u1" /\ memories[x].content = <<"a">>
          /\ memories[y].user_id = "u1" /\ memories[y].content = <<"b">>

\* C26: each tenant has at most one identity record
C26_OneIdentityPerTenant ==
    \A u \in {"local", "u1"} : Cardinality(IdentityPoints(identity, u)) <= 1

\* C27: update_rule changes only the fields scope, condition and enforcement
\* of the addressed rule of the calling tenant; when that rule does not exist
\* or no allowed field is supplied it returns False and leaves every stored
\* record unchanged
C27_UpdateRuleFrame ==
    [][(steps' # steps /\ last'.op = "update_rule")
        => LET k == _rule_point_id(last'.rule_id, last'.user_id)
           IN /\ UNCHANGED <<memories, journal, identity>>
              /\ DOMAIN rules' = DOMAIN rules
              /\ \A q \in DOMAIN rules \ {k} : rules'[q] = rules[q]
              /\ k \in DOMAIN rules
                    => /\ DOMAIN rules'[k] = DOMAIN rules[k]
                       /\ \A f \in DOMAIN rules[k] \ AllowedRuleFields :
                             rules'[k][f] = rules[k][f]
              /\ (RulePoints(rules, last'.rule_id, last'.user_id) = {}
                  \/ last'.fields \cap AllowedRuleFields = {})
                    => last'.status = "False" /\ rules' = rules]_vars

\* an update given an allowed and two other fields has changed the condition
\* of the caller's rule while the other tenant holds a rule of the same id
C27_Witness ==
    /\ last.op = "update_rule" /\ last.status = "True"
    /\ last.fields = {"condition", "rule_id", "last_triggered"}
    /\ \E k \in RulePoints(rules, last.rule_id, last.user_id) :
          /\ rules[k].condition = "c2" /\ rules[k].rule_id = last.rule_id
          /\ rules[k].last_triggered = None
    /\ \E q \in DOMAIN rules :
          /\ rules[q].rule_id = last.rule_id /\ rules[q].user_id # last.user_id
          /\ rules[q].condition = "c1"

\* C28: a Remember whose gate is not correction changes no field of any
\* memory that existed before the call
C28_NonCorrectionFrame ==
    [][(Remembered /\ Lower(last'.gate_str) # "correction")
        => \A id \in DOMAIN memories :
              id \in DOMAIN memories' /\ memories'[id] = memories[id]]_vars

\* the fields of a memory record other than the two Recall may write
FrameFields(mem) == [f \in DOMAIN mem \ {"last_accessed", "access_count"} |-> mem[f]]

\* C29: Recall changes nothing in the store except last_accessed and
\* access_count of the memories it returns
C29_RecallFrame ==
    [][(steps' # steps /\ last'.op = "recall")
        => /\ UNCHANGED <<journal, identity, rules>>
           /\ DOMAIN memories' = DOMAIN memories
           /\ \A id \in DOMAIN memories :
                 /\ FrameFields(memories'[id]) = FrameFields(memories[id])
                 /\ memories'[id] # memories[id]
                       => \E i \in DOMAIN last'.results : last'.results[i].id = id]_vars

\* the calls that found the cache generation stamped `stamp` empty or
\* expired and have made their check under the lock
CheckedStale(stamp) ==
    {c \in JwkCallers : /\ c \in DOMAIN procs /\ procs[c].op = "jwk"
                        /\ procs[c].stale = stamp /\ procs[c].checked_at >= 0}

\* when the first of them made that check: the refresh window opens
WindowStart(stamp) ==
    LET first == CHOOSE c \in CheckedStale(stamp) :
                    \A d \in CheckedStale(stamp) : procs[c].checked_at <= procs[d].checked_at
    IN procs[first].checked_at

\* the calls of p and q both returned through the lock without a failed
\* construction, both had found the same cache generation empty or expired,
\* and both made their check under the lock within one lifetime of the first
\* such check
SameRefresh(p, q) ==
    /\ p # q /\ AtJwk(p, "returned") /\ AtJwk(q, "returned")
    /\ procs[p].checked_at >= 0 /\ procs[q].checked_at >= 0
    /\ ~procs[p].failed /\ ~procs[q].failed
    /\ procs[p].stale = procs[q].stale
    /\ procs[p].checked_at - WindowStart(procs[p].stale) < _JWK_CACHE_TTL
    /\ procs[q].checked_at - WindowStart(procs[q].stale) < _JWK_CACHE_TTL

\* ---- SpecOverlap: two processes recalling, correcting, updating and
\* pinning the same stored memory, their store calls interleaved
Shared == MemId(0, 0)

OverlapFrame ==
    UNCHANGED <<disabled, clock, journal, last, cur, identity, rules,
                _jwk_client, _jwk_cache_time, _jwk_lock, auth_db>>

StartTouch ==
    \E p \in Callers :
        /\ Step(MaxOverlap)
        /\ touch_memory_scroll(p, Shared, "u1")
        /\ OverlapFrame

StartCorrection ==
    \E p \in Callers :
        /\ Step(MaxOverlap)
        /\ correction_get_memory(p, Shared, "u1")
        /\ OverlapFrame

StartUpdate ==
    \E p \in Callers, kwargs \in {[content |-> <<"b">>], [person |-> "p2"]} :
        /\ Step(MaxOverlap)
        /\ update_memory_scroll(p, Shared, "u1", kwargs)
        /\ OverlapFrame

PinOverlap ==
    \E p \in Callers :
        /\ Step(MaxOverlap)
        /\ ~Busy(p)
        /\ memories' = set_pinned(memories, Shared, TRUE, "u1")
        /\ procs' = SetProc(p, [Call(p, "set_pinned", Shared, "u1", <<>>)
                                   EXCEPT !.pc = "done", !.calls = @ + 1])
        /\ OverlapFrame

FinishOverlap ==
    \E p \in Callers :
        /\ Step(MaxOverlap)
        /\ \/ touch_memory_set_payload(p)
           \/ correction_update_confidence(p)
           \/ update_memory_set_payload(p)
           \/ update_memory_upsert(p)
        /\ OverlapFrame

NextOverlap == StartTouch \/ StartCorrection \/ StartUpdate \/ PinOverlap \/ FinishOverlap

SpecOverlap == InitGraph /\ [][NextOverlap]_vars

\* ---- SpecTenants: two tenants writing, each also with the ids of the
\* other's records
Tenants == {"u1", "u2"}

\* one store call on a memory made directly by a tool or an endpoint
store_write(op, id, user_id, m) ==
    /\ cur.pc = "idle"
    /\ memories' = m
    /\ last' = [Blank EXCEPT !.op = op, !.user_id = user_id, !.id = id, !.now = clock]
    /\ UNCHANGED <<others, disabled, clock, journal, cur>>

RememberTenant ==
    \E u \in Tenants :
    \E ranked \in TopRankings(Indexed(MemId(clock, 0))) :
        /\ Step(MaxTenant)
        /\ do_remember(u, <<"a">>, "correction", None, None, "private", None, 0,
                       ranked, {}, "nokey")

ForgetTenant ==
    \E u \in Tenants, id \in DOMAIN memories, t \in {None, "t1"} :
        /\ Step(MaxTenant)
        /\ do_forget(id, u, t, "owner")

UpdateTenant ==
    \E u \in Tenants, id \in DOMAIN memories :
        /\ Step(MaxTenant)
        /\ api_update_memory(id, u, [content |-> <<"b">>])

PinTenant ==
    \E u \in Tenants, id \in DOMAIN memories :
        /\ Step(MaxTenant)
        /\ api_pin_memory(id, u, TRUE)

StoreWriteTenant ==
    \E u \in Tenants, id \in DOMAIN memories :
        /\ Step(MaxTenant)
        /\ \/ store_write("update_sensitivity", id, u,
                          update_sensitivity(memories, id, "sensitive", "why", u))
           \/ store_write("add_edge", id, u, add_edge(memories, id, id, "FOLLOWS", u))
           \/ store_write("touch_memory", id, u, touch_memory(memories, id, u, clock + 1))

RuleTenant ==
    \E u \in Tenants :
        /\ Step(MaxTenant)
        /\ \/ create_rule("r1", u, "s1", "c1", "suggest")
           \/ \E k \in DOMAIN rules : store_update_rule(rules[k].rule_id, u, [condition |-> "c2"])
           \/ \E k \in DOMAIN rules : store_delete_rule(rules[k].rule_id, u)

NextTenants ==
    \/ RememberTenant \/ ForgetTenant \/ UpdateTenant \/ PinTenant
    \/ StoreWriteTenant \/ RuleTenant

SpecTenants == Init /\ [][NextTenants]_vars

\* ---- SpecTeamForget: two members of team t1 writing private and team
\* memories and forgetting them in the team context; role is the answer of
\* get_member_role for the caller
TeamRoles == {None, "member", "admin", "owner"}

RememberTeam ==
    \E u \in Tenants, v \in {"private", "team"} :
    \E ranked \in TopRankings(Indexed(MemId(clock, 0))) :
        /\ Step(MaxTeamForget)
        /\ do_remember(u, <<"a">>, "epistemic", None, None, v, "t1", 0, ranked, {},
                       "nokey")

ForgetTeam ==
    \E u \in Tenants, id \in DOMAIN memories \cup {MissingId}, role \in TeamRoles :
        /\ Step(MaxTeamForget)
        /\ do_forget(id, u, "t1", role)

NextTeamForget == RememberTeam \/ ForgetTeam \/ Tick

SpecTeamForget == Init /\ [][NextTeamForget]_vars

\* ---- SpecTeams: two users creating teams and changing their membership
\* through the API and the CLI
TeamIds == {"t1", "t2"}

CreateTeam ==
    \E t \in TeamIds, u \in Tenants :
        Step(MaxTeams) /\ api_create_team(t, u)

DeleteTeam ==
    \E t \in TeamIds, u \in Tenants :
        Step(MaxTeams) /\ api_delete_team(t, u)

AddMember ==
    \E t \in TeamIds, u \in Tenants, who \in Tenants, role \in {"admin", "member"} :
        Step(MaxTeams) /\ add_member(t, u, who, role)

RemoveMember ==
    \E t \in TeamIds, u \in Tenants, who \in Tenants :
        Step(MaxTeams) /\ remove_member(t, u, who)

TeamJoin ==
    \E t \in TeamIds, u \in Tenants :
        Step(MaxTeams) /\ team_join(t, u)

TeamLeave ==
    \E t \in TeamIds, u \in Tenants :
        Step(MaxTeams) /\ team_leave(t, u)

NextTeams ==
    \/ CreateTeam \/ DeleteTeam \/ AddMember \/ RemoveMember \/ TeamJoin \/ TeamLeave

SpecTeams == Init /\ [][NextTeams]_vars

\* ---- SpecDispatch: one server session saving through remember_this; the
\* session ends only with the process, so its calls are not counted in steps
DispatchRemember ==
    \E v \in {"private", "team"} :
    \E ranked \in TopRankings(Indexed(MemId(clock, 0))) :
        /\ dispatch_remember("u1", <<"a">>, "epistemic", v, None, 0, ranked)
        /\ UNCHANGED steps

DispatchRaise == dispatch_raise("u1") /\ UNCHANGED steps

DispatchCount == dispatch_count /\ UNCHANGED steps

DispatchReset == dispatch_reset /\ UNCHANGED steps

DispatchReflect ==
    /\ \E raises \in BOOLEAN : dispatch_reflect("u1", FALSE, raises)
    /\ UNCHANGED steps

DispatchReturn == dispatch_return /\ UNCHANGED steps

NextDispatch ==
    \/ DispatchRemember \/ DispatchRaise \/ DispatchCount
    \/ DispatchReset \/ DispatchReflect \/ DispatchReturn

SpecDispatch == Init /\ [][NextDispatch]_vars

\* C30: of the callers that find the JWKS client cache empty or expired at
\* the same time, exactly one constructs a new client for that refresh
\* window, and all of them return that client.
C30_OneRefreshPerWindow ==
    \A p, q \in JwkCallers :
        SameRefresh(p, q) =>
            /\ procs[p].result # NoClient
            /\ procs[p].result = procs[q].result
            /\ procs[p].made = NoClient \/ procs[q].made = NoClient
            /\ \E c \in JwkCallers : AtJwk(c, "returned") /\ procs[c].made = procs[p].result

\* two callers found the cache empty together; one constructed the client
\* and the other, which checked under the lock half an hour later, returned it
C30_Witness ==
    \E p, q \in JwkCallers :
        /\ SameRefresh(p, q)
        /\ procs[p].made # NoClient
        /\ procs[q].made = NoClient
        /\ procs[q].result = procs[p].made
        /\ procs[q].checked_at > procs[p].checked_at

\* C31: an API key validates, as its owner, exactly when its row was created
\* and has not been revoked by its owner: rows come only from create, a row's
\* owner and hash never change, a revoked row stays revoked, only the owner's
\* revoke succeeds, and a revoke by anyone else returns False and leaves the
\* key valid.
C31_KeyValidity ==
    [][/\ \A k \in DOMAIN api_keys :
             /\ k \in DOMAIN api_keys'
             /\ api_keys'[k].user_id = api_keys[k].user_id
             /\ api_keys'[k].key_hash = api_keys[k].key_hash
             /\ api_keys[k].revoked => api_keys'[k].revoked
             /\ (api_keys'[k].revoked /\ ~api_keys[k].revoked)
                   => /\ last'.op = "revoke_key" /\ last'.status = "True"
                      /\ last'.key_id = k /\ last'.user_id = api_keys[k].user_id
       /\ \A k \in DOMAIN api_keys' \ DOMAIN api_keys :
             /\ last'.op = "create_key" /\ last'.status = "created" /\ last'.key_id = k
             /\ api_keys'[k].user_id = last'.user_id /\ ~api_keys'[k].revoked
       /\ (steps' # steps /\ last'.op = "revoke_key")
             => (last'.status = "True")
                   <=> (/\ last'.key_id \in DOMAIN api_keys
                        /\ api_keys[last'.key_id].user_id = last'.user_id)
       /\ (steps' # steps /\ last'.op = "validate_key")
             => LET live == LiveKeys(api_keys, last'.key_hash)
                IN /\ (last'.status = "user") <=> live # {}
                   /\ last'.status = "user"
                         => /\ live = {last'.key_id}
                            /\ last'.user_id = api_keys[last'.key_id].user_id
                   /\ last'.status # "user" => last'.status = "None"]_vars

\* a revoked key was presented and refused, while the other key of its owner
\* is still live
C31_Witness ==
    /\ last.op = "validate_key" /\ last.status = "None"
    /\ \E k, j \in DOMAIN api_keys :
          /\ api_keys[k].key_hash = last.key_hash /\ api_keys[k].revoked
          /\ j # k /\ api_keys[j].user_id = api_keys[k].user_id /\ ~api_keys[j].revoked

\* the call of _dispatch returns in this step
Returns == dispatch.pc # "returned" /\ dispatch'.pc = "returned"

\* C32 as stated: Reflect is invoked on exactly every 15th remember_this
\* dispatch since the save counter was last reset; after that dispatch the
\* save counter is 0 whether or not Reflect raised, and the remember result
\* is returned unchanged.
C32_ReflectEvery15th ==
    [][/\ dispatch'.calls # dispatch.calls /\ dispatch'.pc = "returned"
            => dispatch'.at_call # _REFLECT_EVERY
       /\ Returns
            => /\ dispatch'.reflected # "no" <=> dispatch'.at_call = _REFLECT_EVERY
               /\ dispatch'.reflected # "no"
                    => /\ counters'.save = 0
                       /\ last'.status = dispatch.result
                       /\ last'.warning = {}]_vars

\* C32 amended: Reflect is invoked on exactly every 15th remember_this
\* dispatch in which Remember returned, counted since the save counter was
\* last reset; after that dispatch the save counter is 0 whether or not
\* Reflect raised, and the remember result is returned with nothing of
\* Reflect in it: only the auto-checkpoint notice is appended, when the
\* checkpoint counter has reached its own threshold in the same dispatch.
C32_ReflectEvery15thSave ==
    [][Returns
         => /\ dispatch'.reflected # "no" <=> dispatch'.at_save = _REFLECT_EVERY
            /\ dispatch'.reflected # "no" => counters'.save = 0
            /\ last'.status = dispatch.result
            /\ last'.warning \subseteq {"auto-checkpoint"}
            /\ last'.warning # {} <=> counters.checkpoint >= CHECKPOINT_EVERY]_vars

\* the 15th save since the reset was the 16th dispatch, Reflect raised, the
\* save counter is 0 and the result came back with the auto-checkpoint notice
C32_Witness ==
    /\ dispatch.pc = "returned" /\ dispatch.reflected = "raised"
    /\ dispatch.at_save = _REFLECT_EVERY /\ dispatch.at_call = _REFLECT_EVERY + 1
    /\ counters.save = 0 /\ dispatch.notice

\* C33: a Remember that is rejected (invalid gate, or team visibility
\* without a team) leaves the stored state unchanged: the rejected call adds
\* no journal record and no memory record.
C33_RejectedWritesNothing ==
    [][(/\ steps' # steps
        /\ last'.op = "remember"
        /\ last'.status \in {"invalid gate", "no team"})
        => (journal' = journal /\ memories' = memories)]_vars

\* the completed calls of one kind, over both processes
Completed(f) == Tally(1, f) + Tally(2, f)

\* C34: the access_count of a memory is 1 plus the number of completed
\* Recalls that returned it as a direct hit, also when those Recalls overlap
\* in time.
C34_AccessCountsRecalls ==
    (/\ ~disabled
     /\ Completed("calls") = Completed("touches")
     /\ \A p \in DOMAIN procs : procs[p].op = "touch_memory")
        => memories[Shared].access_count = 1 + Completed("touches")

RECURSIVE Halved(_, _)
\* c halved k times
Halved(c, k) == IF k = 0 THEN c ELSE Halved(c \div 2, k - 1)

\* C35: after k correction writes that each matched the same target memory,
\* and no other write to that target, the target's confidence is
\* 0.9 x 0.5^k, also when the correction writes run concurrently.
C35_ConfidenceHalvedPerCorrection ==
    (/\ ~disabled
     /\ Completed("calls") = Completed("halvings")
     /\ \A p \in DOMAIN procs : procs[p].op = "correction" /\ procs[p].pc = "done")
        => memories[Shared].confidence = Halved(ConfInit, Completed("halvings"))

\* the fields of a stored memory that UpdateMemory was not asked to change
Unsupplied(kwargs) == DOMAIN memories[Shared] \ (UpdatableFields \cap DOMAIN kwargs)

\* C36: UpdateMemory changes only the caller-supplied fields among content,
\* gate, person and project; every other field of the memory keeps the value
\* given by other operations, also when a touch, pin or confidence write on
\* the same memory runs concurrently with the update.
C36_UpdateFrame ==
    [][\A p \in Callers :
         (/\ Busy(p) /\ procs[p].op = "update_memory"
          /\ procs'[p] # procs[p])
            => \A id \in DOMAIN memories :
                 /\ id \in DOMAIN memories'
                 /\ \A f \in Unsupplied(procs[p].kwargs) :
                       memories'[id][f] = memories[id][f]
                 /\ id # procs[p].id => memories'[id] = memories[id]]_vars

\* the records of collection c that tenant u does not own are the same
\* before and after
OthersKept(c, d, u) ==
    \A k \in DOMAIN c : c[k].user_id # u => (k \in DOMAIN d /\ d[k] = c[k])

\* C37: no write issued under tenant U (Remember, Forget, UpdateMemory, Pin,
\* sensitivity update, AddEdge, touch, rule update or delete) changes or
\* deletes a record owned by a different tenant, even when it is given that
\* record's id.
C37_WritesStayInTenant ==
    [][steps' # steps
         => /\ OthersKept(memories, memories', last'.user_id)
            /\ OthersKept(journal, journal', last'.user_id)
            /\ OthersKept(rules, rules', last'.user_id)
            /\ OthersKept(identity, identity', last'.user_id)]_vars

\* memory id is a team memory of team t created by someone other than u
TeamMemoryOfOther(id, t, u) ==
    /\ id \in DOMAIN memories
    /\ memories[id].visibility = "team"
    /\ memories[id].team_id = t
    /\ Truthy(memories[id].created_by)
    /\ memories[id].created_by # u

\* C38: a Forget issued in a team context deletes a team memory created by
\* someone else only if the caller's role in that team is owner or admin;
\* otherwise the memory stays stored and the call reports the refusal.
C38_TeamForgetNeedsAdmin ==
    [][(/\ steps' # steps
        /\ last'.op = "forget"
        /\ Truthy(last'.team_id)
        /\ TeamMemoryOfOther(last'.id, last'.team_id, last'.user_id)
        /\ last'.role \notin {"owner", "admin"})
        => /\ last'.id \in DOMAIN memories'
           /\ memories'[last'.id] = memories[last'.id]
           /\ last'.status = "not allowed"]_vars

\* C39: in every reachable state each existing team has at least one member
\* with role owner, under any sequence of team creation, add-member,
\* remove-member and leave operations performed through the API or the CLI.
C39_EveryTeamHasOwner ==
    \A t \in DOMAIN teams :
        \E k \in DOMAIN team_members :
            team_members[k].team_id = t /\ team_members[k].role = "owner"

====
